---- MODULE Spec2Model ----
(***************************************************************************)
(* Model of the static-analysis core of ZSEI: the Rust reference resolver  *)
(* (src/analyzers/rust/mod.rs), the code graph and its breadth-first path  *)
(* search (src/analyzers/common/mod.rs) and the batch orchestrator         *)
(* (src/analyzers/mod.rs).                                                 *)
(*                                                                         *)
(* Strings are sequences of atoms.  An atom is an identifier chunk (it     *)
(* holds no ':' and no '/'), the scope separator "::", the path separator  *)
(* "/", or the suffix ".rs".  A path is the sequence of its components, as *)
(* std::path::Path::components yields them; an absolute path starts with   *)
(* the root component.                                                     *)
(***************************************************************************)
EXTENDS Integers, Sequences, FiniteSets, TLC

VARIABLES
    \* ---- resolver (RustAnalyzer::resolve_*_path) ----
    exists,         \* the paths that exist on disk
    cargo,          \* what fs::read_to_string gives for each existing Cargo.toml
    segs,           \* the segments the reference was written from
    import_path,    \* the reference string handed to the resolver
    source_path,    \* the referencing file
    rpc,            \* "start" | "done"
    rfn,            \* which resolver ran: "import" | "module" | "type"
    rout,           \* its Result<PathBuf>, or the extractor's Result<Vec<Dependency>>
    tree,           \* the nodes of the syntax tree the extractor's queries visit
    \* ---- graph (CodeGraph) ----
    deps,           \* the dependency list CodeGraph::new is given
    graph,          \* the CodeGraph built from it
    source,         \* get_dependency_path's source
    target,         \* get_dependency_path's target
    queue,          \* BFS queue
    visited,        \* BFS visited set
    predecessor,    \* BFS predecessor map: node -> (pred, edge)
    current,        \* the node the path reconstruction stands at
    path,           \* the edges the path reconstruction has pushed
    gpc,            \* "new" | "built" | "bfs" | "walk" | "done"
    gret,           \* get_dependency_path's Option<Vec<GraphEdge>>
    turns,          \* loop turns get_dependency_path has taken so far
    \* ---- orchestrator (Analyzer::analyze_files) ----
    files,          \* the batch
    idx,            \* loop index i (0-based position of the file in hand)
    apc,            \* "project" | "collect" | "send" | "analyze" | "extract" |
                    \* "build" | "done"
    file_analyses,  \* accumulated FileAnalysis list
    dependencies,   \* accumulated Dependency list
    result,         \* analyze_files' Result<AnalysisResult>
    progress_tx,    \* whether a progress sender was supplied
    chan,           \* progress events in the channel
    rx_closed,      \* whether the receiver was dropped
    received,       \* events the progress consumer has taken
    calls,          \* what each analyzer call of the run returned
    \* ---- file-set collection (analyze_full / analyze_incremental) ----
    paths,          \* the paths argument
    incremental,    \* whether the run is analyze_incremental
    state_file,     \* what .zsei/state.json holds
    walk,           \* what a walk of the project directory yields
    \* ---- metrics (RustAnalyzer's complexity and maintainability) ----
    body,           \* a function body
    construct,      \* the construct added to the body
    fn_count,       \* the number of functions of the file
    loc,            \* lines of the file
    comment_lines,  \* comment lines of the file
    complexity,     \* the complexity handed to the maintainability index
    mpc,            \* "start" | "done"
    mfn,            \* which function is called
    mout            \* what it returned

rvars == <<exists, cargo, segs, import_path, source_path, rpc, rfn, rout, tree>>
gvars == <<deps, graph, source, target, queue, visited, predecessor, current, path,
           gpc, gret, turns>>
avars == <<files, idx, apc, file_analyses, dependencies, result, progress_tx,
           chan, rx_closed, received, calls>>
cvars == <<paths, incremental, state_file, walk>>
mvars == <<body, construct, fn_count, loc, comment_lines, complexity, mpc, mfn, mout>>
vars == <<rvars, gvars, avars, cvars, mvars>>

\* Option and Result values
None == [some |-> FALSE]
Some(v) == [some |-> TRUE, v |-> v]
Ok(v) == [ok |-> TRUE, v |-> v]
Err == [ok |-> FALSE]

(***************************************************************************)
(* Strings                                                                 *)
(***************************************************************************)
Sep == "::"
Slash == "/"

\* first index at which pat occurs in s, 0 if none (str::find)
Find(s, pat) ==
    LET hits == {i \in 1..(Len(s) - Len(pat) + 1) : SubSeq(s, i, i + Len(pat) - 1) = pat}
    IN IF hits = {} THEN 0 ELSE CHOOSE i \in hits : \A j \in hits : i <= j

\* str::contains
Contains(s, pat) == Find(s, pat) # 0

\* str::starts_with
StrStartsWith(s, pat) == Len(s) >= Len(pat) /\ SubSeq(s, 1, Len(pat)) = pat

\* a split that drops empty pieces: the empty string has no piece at all
RECURSIVE SplitDropEmpty(_)
SplitDropEmpty(s) ==
    LET k == Find(s, <<Sep>>)
        head == IF k = 0 THEN s ELSE SubSeq(s, 1, k - 1)
        rest == IF k = 0 THEN <<>> ELSE SplitDropEmpty(SubSeq(s, k + 1, Len(s)))
    IN (IF head = <<>> THEN <<>> ELSE <<head>>) \o rest

\* str::split("::") collected: the pieces between separators, never empty
RECURSIVE Split(_)
Split(s) ==
    LET k == Find(s, <<Sep>>)
    IN IF k = 0 THEN <<s>>
       ELSE <<SubSeq(s, 1, k - 1)>> \o Split(SubSeq(s, k + 1, Len(s)))

\* str::replace(from, to) for a one-atom pattern
RECURSIVE Replace(_, _, _)
Replace(s, from, to) ==
    IF s = <<>> THEN <<>>
    ELSE (IF Head(s) = from THEN to ELSE <<Head(s)>>) \o Replace(Tail(s), from, to)

\* str::replacen(pat, "", 1): the first occurrence of pat removed
RemoveFirst(s, pat) ==
    LET k == Find(s, pat)
    IN IF k = 0 THEN s
       ELSE SubSeq(s, 1, k - 1) \o SubSeq(s, k + Len(pat), Len(s))

\* [&str]::join(sep)
RECURSIVE JoinStr(_, _)
JoinStr(parts, sep) ==
    IF parts = <<>> THEN <<>>
    ELSE IF Len(parts) = 1 THEN parts[1]
    ELSE parts[1] \o <<sep>> \o JoinStr(Tail(parts), sep)

(***************************************************************************)
(* Paths                                                                   *)
(***************************************************************************)
RootDir == <<"/">>

\* the pieces of s between "/" atoms, empty pieces dropped
RECURSIVE Pieces(_)
Pieces(s) ==
    LET k == Find(s, <<Slash>>)
        head == IF k = 0 THEN s ELSE SubSeq(s, 1, k - 1)
        rest == IF k = 0 THEN <<>> ELSE Pieces(SubSeq(s, k + 1, Len(s)))
    IN (IF head = <<>> THEN <<>> ELSE <<head>>) \o rest

\* Path::new(s).components()
Components(s) ==
    IF s # <<>> /\ s[1] = Slash THEN <<RootDir>> \o Pieces(s) ELSE Pieces(s)

\* Path::join: an absolute argument replaces the base
Join(p, s) ==
    IF s # <<>> /\ s[1] = Slash THEN Components(s) ELSE p \o Components(s)

\* Path::parent
Parent(p) ==
    IF p = <<>> \/ p = <<RootDir>> THEN None ELSE Some(SubSeq(p, 1, Len(p) - 1))

\* Option::unwrap_or
UnwrapOr(o, d) == IF o.some THEN o.v ELSE d

\* Path::starts_with: a prefix by whole components
StartsWith(p, base) == Len(p) >= Len(base) /\ SubSeq(p, 1, Len(base)) = base

(***************************************************************************)
(* Reference resolver: RustAnalyzer::resolve_import_path,                  *)
(* resolve_module_path, resolve_type_path                                  *)
(***************************************************************************)
RS == <<".rs">>
ModRs == <<"mod", ".rs">>
CargoToml == <<"Cargo", ".toml">>

\* the built-in namespace names of resolve_import_path
StdNamespaces == {<<"std">>, <<"core">>, <<"alloc">>}

\* a check of the whole reference against the built-in names
IsStdImportWhole(ip) == ip \in StdNamespaces

\* ["std","core","alloc"].contains(&import_path.split("::").next().unwrap_or(""))
IsStdImport(ip) ==
    LET it == Split(ip)
    IN (IF it = <<>> THEN <<>> ELSE it[1]) \in StdNamespaces

\* a walk upward that does not stop at the project root
RECURSIVE FindCargoTomlUnbounded(_, _)
FindCargoTomlUnbounded(dir, root) ==
    LET cargo_path == Join(dir, CargoToml)
    IN IF cargo_path \in exists THEN Some(cargo_path)
       ELSE IF Parent(dir).some THEN FindCargoTomlUnbounded(Parent(dir).v, root)
       ELSE None

\* the walk upward from dir for a directory holding Cargo.toml, inside root
RECURSIVE FindCargoToml(_, _)
FindCargoToml(dir, root) ==
    IF ~StartsWith(dir, root) THEN None
    ELSE LET cargo_path == Join(dir, CargoToml)
         IN IF cargo_path \in exists THEN Some(cargo_path)
            ELSE IF Parent(dir).some THEN FindCargoToml(Parent(dir).v, root)
            ELSE None

\* crate_root: the manifest's directory, else the project root
CrateRoot(cargo_toml_path, root) ==
    IF cargo_toml_path.some THEN UnwrapOr(Parent(cargo_toml_path.v), root) ELSE root

\* is_external: the manifest text names parts[0] as package or quoted entry
IsExternal(cargo_toml_path, parts) ==
    /\ cargo_toml_path.some
    /\ cargo[cargo_toml_path.v].ok
    /\ LET content == cargo[cargo_toml_path.v].text
       IN \/ Contains(content, <<"name = ", "\"">> \o parts[1] \o <<"\"">>)
          \/ Contains(content, <<"\"">> \o parts[1] \o <<" ">>)

\* crate:: candidates with the directory module first
CratePathsDirFirst(ip, crate_root) ==
    LET module_path == Replace(RemoveFirst(ip, <<"crate", Sep>>), Sep, <<Slash>>)
        src == Join(crate_root, <<"src">>)
    IN <<Join(Join(src, module_path), ModRs), Join(src, module_path \o RS)>>

\* potential_paths of a crate:: reference
CratePaths(ip, crate_root) ==
    LET module_path == Replace(RemoveFirst(ip, <<"crate", Sep>>), Sep, <<Slash>>)
        src == Join(crate_root, <<"src">>)
    IN <<Join(src, module_path \o RS), Join(Join(src, module_path), ModRs)>>

\* potential_paths of a self:: reference
SelfPaths(ip, source_dir) ==
    LET module_path == Replace(RemoveFirst(ip, <<"self", Sep>>), Sep, <<Slash>>)
    IN <<Join(source_dir, module_path \o RS), Join(Join(source_dir, module_path), ModRs)>>

\* potential_paths of a super:: reference
SuperPaths(ip, source_dir) ==
    LET module_path == Replace(RemoveFirst(ip, <<"super", Sep>>), Sep, <<Slash>>)
    IN IF Parent(source_dir).some
       THEN LET parent_dir == Parent(source_dir).v
            IN <<Join(parent_dir, module_path \o RS),
                 Join(Join(parent_dir, module_path), ModRs)>>
       ELSE <<>>

\* plain candidates with the module of the first segment before the entry files
RegularPathsModuleFirst(parts, crate_root) ==
    LET src == Join(crate_root, <<"src">>)
        module_path == parts[1]
        full_module_path == JoinStr(parts, Slash)
    IN <<Join(src, module_path \o RS), Join(Join(src, module_path), ModRs),
         Join(src, <<"lib", ".rs">>), Join(src, <<"main", ".rs">>)>>
       \o (IF Len(parts) > 1
           THEN <<Join(src, full_module_path \o RS),
                  Join(Join(src, full_module_path), ModRs)>>
           ELSE <<>>)

\* potential_paths of a plain reference
RegularPaths(parts, crate_root) ==
    LET src == Join(crate_root, <<"src">>)
        module_path == parts[1]
        full_module_path == JoinStr(parts, Slash)
    IN <<Join(src, <<"lib", ".rs">>), Join(src, <<"main", ".rs">>),
         Join(src, module_path \o RS), Join(Join(src, module_path), ModRs)>>
       \o (IF Len(parts) > 1
           THEN <<Join(src, full_module_path \o RS),
                  Join(Join(src, full_module_path), ModRs)>>
           ELSE <<>>)

PotentialPaths(ip, sp, parts, crate_root) ==
    LET source_dir == UnwrapOr(Parent(sp), <<>>)
    IN IF StrStartsWith(ip, <<"crate", Sep>>) THEN CratePaths(ip, crate_root)
       ELSE IF StrStartsWith(ip, <<"self", Sep>>) THEN SelfPaths(ip, source_dir)
       ELSE IF StrStartsWith(ip, <<"super", Sep>>) THEN SuperPaths(ip, source_dir)
       ELSE RegularPaths(parts, crate_root)

\* for path in potential_paths { if path.exists() { return Ok(path) } }
FirstExisting(potential_paths) ==
    LET hits == {i \in 1..Len(potential_paths) : potential_paths[i] \in exists}
    IN IF hits = {} THEN None
       ELSE Some(potential_paths[CHOOSE i \in hits : \A j \in hits : i <= j])

\* a best guess that keeps the first segment only
BestGuessFirstOnly(parts, crate_root) ==
    Join(Join(crate_root, <<"src">>), parts[1] \o RS)

\* the best guess when no candidate exists
BestGuess(parts, crate_root) ==
    Join(Join(crate_root, <<"src">>), JoinStr(parts, Slash) \o RS)

\* a resolution that looks for an existing candidate before the manifest
ResolveImportPathCandidatesFirst(ip, sp, root) ==
    IF IsStdImport(ip)
    THEN Ok(Join(Join(<<<<"rust">>>>, <<"std">>), Replace(ip, Sep, <<Slash>>)))
    ELSE LET cargo_toml_path == FindCargoToml(UnwrapOr(Parent(sp), <<>>), root)
             crate_root == CrateRoot(cargo_toml_path, root)
             parts == Split(ip)
             found == FirstExisting(PotentialPaths(ip, sp, parts, crate_root))
         IN IF parts = <<>> THEN Err
            ELSE IF found.some THEN Ok(found.v)
            ELSE IF IsExternal(cargo_toml_path, parts)
            THEN Ok(Join(<<<<"external">>>>, JoinStr(parts, Slash)))
            ELSE Ok(BestGuess(parts, crate_root))

ResolveImportPath(ip, sp, root) ==
    IF IsStdImport(ip)
    THEN Ok(Join(Join(<<<<"rust">>>>, <<"std">>), Replace(ip, Sep, <<Slash>>)))
    ELSE LET cargo_toml_path == FindCargoToml(UnwrapOr(Parent(sp), <<>>), root)
             crate_root == CrateRoot(cargo_toml_path, root)
             parts == Split(ip)
         IN IF parts = <<>> THEN Err
            ELSE IF IsExternal(cargo_toml_path, parts)
            THEN Ok(Join(<<<<"external">>>>, JoinStr(parts, Slash)))
            ELSE LET found == FirstExisting(PotentialPaths(ip, sp, parts, crate_root))
                 IN IF found.some THEN Ok(found.v)
                    ELSE Ok(BestGuess(parts, crate_root))

ResolveModulePath(module_name, sp, root) ==
    LET source_dir == UnwrapOr(Parent(sp), <<>>)
        module_path == Join(source_dir, module_name \o RS)
        module_dir_path == Join(Join(source_dir, module_name), ModRs)
    IN IF module_path \in exists THEN Ok(module_path)
       ELSE IF module_dir_path \in exists THEN Ok(module_dir_path)
       ELSE ResolveImportPath(module_name \o <<Sep>>, sp, root)

\* the built-in / common-library type names of resolve_type_path; Vec is
\* spelled as its capital and the rest
StdTypes ==
    {<<t>> : t \in {"String", "HashMap", "BTreeMap", "HashSet", "BTreeSet",
                    "Option", "Result", "Box", "Rc", "Arc", "Cell", "RefCell",
                    "Mutex", "RwLock", "Cow", "PathBuf", "Path"}}
    \cup {<<"V", "ec">>}

\* char::is_uppercase and char::to_lowercase on the atoms that are one letter
IsUppercase(c) == c \in {"T", "V"}
ToLowercase(c) == IF c = "T" THEN "t" ELSE IF c = "V" THEN "v" ELSE c

\* to_snake_case: the loop over the characters, carrying (result, prev_is_upper)
RECURSIVE SnakeLoop(_, _, _)
SnakeLoop(s, res, prev_is_upper) ==
    IF s = <<>> THEN res
    ELSE LET c == Head(s)
         IN IF IsUppercase(c)
            THEN SnakeLoop(Tail(s),
                           (IF ~prev_is_upper /\ res # <<>> THEN res \o <<"_">> ELSE res)
                               \o <<ToLowercase(c)>>,
                           TRUE)
            ELSE SnakeLoop(Tail(s), res \o <<c>>, FALSE)

ToSnakeCase(s) == SnakeLoop(s, <<>>, TRUE)

\* a type resolution that looks for the file of the name before the type list
ResolveTypePathFileFirst(type_name, sp, root) ==
    IF Contains(type_name, <<Sep>>) THEN ResolveImportPath(type_name, sp, root)
    ELSE LET source_dir == UnwrapOr(Parent(sp), <<>>)
             snake_case == ToSnakeCase(type_name)
             type_file == Join(source_dir, snake_case \o RS)
         IN IF snake_case # <<>> /\ type_file \in exists THEN Ok(type_file)
            ELSE IF type_name \in StdTypes THEN Ok(<<<<"rust">>, <<"std">>>>)
            ELSE Ok(sp)

ResolveTypePath(type_name, sp, root) ==
    IF Contains(type_name, <<Sep>>) THEN ResolveImportPath(type_name, sp, root)
    ELSE IF type_name \in StdTypes THEN Ok(<<<<"rust">>, <<"std">>>>)
    ELSE LET source_dir == UnwrapOr(Parent(sp), <<>>)
             snake_case == ToSnakeCase(type_name)
             type_file == Join(source_dir, snake_case \o RS)
         IN IF snake_case # <<>> /\ type_file \in exists THEN Ok(type_file)
            ELSE Ok(sp)

(***************************************************************************)
(* The resolver's inputs: project root, referencing files, disk states,    *)
(* manifest texts and reference strings                                    *)
(***************************************************************************)
MaxSegs == 3

ProjectRoot == <<RootDir, <<"p">>>>
SrcDir == ProjectRoot \o <<<<"src">>>>

EntryFile == SrcDir \o <<<<"main", ".rs">>>>
NestedFile == SrcDir \o <<<<"a">>, <<"b", ".rs">>>>
BareFile == <<<<"b", ".rs">>>>
Sources == {EntryFile, NestedFile, BareFile}

RootManifest == ProjectRoot \o <<CargoToml>>
LibRs == SrcDir \o <<<<"lib", ".rs">>>>
FileModule == SrcDir \o <<<<"m", ".rs">>>>
DirModule == SrcDir \o <<<<"m">>, ModRs>>
SiblingModule == SrcDir \o <<<<"a">>, <<"m", ".rs">>>>
FsUniverse == {RootManifest, LibRs, FileModule, DirModule, SiblingModule}
ManifestPaths == {RootManifest}

\* a manifest whose package is m; one with the quoted entries "T " and "std ";
\* an unreadable one
ManifestReads ==
    {[ok |-> TRUE, text |-> <<"[package]", "name = ", "\"", "m", "\"">>],
     [ok |-> TRUE, text |-> <<"[package]", "name = ", "\"", "p", "\"",
                               "features = [", "\"", "T", " ", "\"", ", ",
                               "\"", "std", " ", "\"", "]">>],
     [ok |-> FALSE]}

Idents == {"std", "crate", "self", "super", "m", "T"}
\* the first segment is any identifier or empty; the keywords act only in first
\* place, so the later segments are the empty one, two plain names and one keyword
HeadChoices == {<<>>} \cup {<<a>> : a \in Idents}
TailChoices == {<<>>, <<"m">>, <<"T">>, <<"std">>}
SegLists ==
    UNION {{sg \in [1..n -> HeadChoices] : \A k \in 2..n : sg[k] \in TailChoices} :
           n \in 1..MaxSegs}

ResolverIdle ==
    /\ exists = {}
    /\ cargo = <<>>
    /\ segs = <<>>
    /\ import_path = <<>>
    /\ source_path = <<>>
    /\ rpc = "idle"
    /\ rfn = "none"
    /\ rout = Err
    /\ tree = <<>>

InitResolve ==
    /\ exists \in SUBSET FsUniverse
    /\ cargo \in [exists \cap ManifestPaths -> ManifestReads]
    /\ segs \in SegLists
    /\ import_path = JoinStr(segs, Sep)
    /\ source_path \in Sources
    /\ rpc = "start"
    /\ rfn = "none"
    /\ rout = Err
    /\ tree = <<>>

CallResolveImportPath ==
    /\ rpc = "start"
    /\ rout' = ResolveImportPath(import_path, source_path, ProjectRoot)
    /\ rfn' = "import"
    /\ rpc' = "done"
    /\ UNCHANGED <<exists, cargo, segs, import_path, source_path, tree>>

CallResolveModulePath ==
    /\ rpc = "start"
    /\ rout' = ResolveModulePath(import_path, source_path, ProjectRoot)
    /\ rfn' = "module"
    /\ rpc' = "done"
    /\ UNCHANGED <<exists, cargo, segs, import_path, source_path, tree>>

CallResolveTypePath ==
    /\ rpc = "start"
    /\ rout' = ResolveTypePath(import_path, source_path, ProjectRoot)
    /\ rfn' = "type"
    /\ rpc' = "done"
    /\ UNCHANGED <<exists, cargo, segs, import_path, source_path, tree>>

GraphIdle ==
    /\ deps = <<>>
    /\ graph = [nodes |-> <<>>, edges |-> <<>>]
    /\ source = "none"
    /\ target = "none"
    /\ queue = <<>>
    /\ visited = {}
    /\ predecessor = <<>>
    /\ current = "none"
    /\ path = <<>>
    /\ gpc = "idle"
    /\ gret = None
    /\ turns = 0

AnalyzeIdle ==
    /\ files = <<>>
    /\ idx = 0
    /\ apc = "idle"
    /\ file_analyses = <<>>
    /\ dependencies = <<>>
    /\ result = Err
    /\ progress_tx = FALSE
    /\ chan = <<>>
    /\ rx_closed = FALSE
    /\ received = <<>>
    /\ calls = <<>>

\* no collection: analyze_files is handed its batch directly
CollectIdle ==
    /\ paths = <<>>
    /\ incremental = FALSE
    /\ state_file = "absent"
    /\ walk = <<>>

\* no metric is computed
MetricsIdle ==
    /\ body = <<>>
    /\ construct = <<>>
    /\ fn_count = 0
    /\ loc = 0
    /\ comment_lines = 0
    /\ complexity = 0
    /\ mpc = "idle"
    /\ mfn = "none"
    /\ mout = None

NextResolve ==
    \/ CallResolveImportPath /\ UNCHANGED <<gvars, avars, cvars, mvars>>
    \/ CallResolveModulePath /\ UNCHANGED <<gvars, avars, cvars, mvars>>
    \/ CallResolveTypePath /\ UNCHANGED <<gvars, avars, cvars, mvars>>

InitR == InitResolve /\ GraphIdle /\ AnalyzeIdle /\ CollectIdle /\ MetricsIdle

SpecResolve == InitR /\ [][NextResolve]_vars

\* C1: resolve_import_path, resolve_module_path and resolve_type_path return
\* Ok for every reference, referencing file and disk state.
C1_ResolverTotal == rpc = "done" => rout.ok

\* reached: a resolver has run on the empty reference
C1_Witness == rpc = "done" /\ import_path = <<>> /\ rfn = "import" /\ rout.ok

\* C2: a reference whose first segment is std, core or alloc resolves under
\* rust/std, whatever the other segments, the referencing file, the manifest and
\* the files on disk.
C2_StdPrefix ==
    (rpc = "done" /\ rfn = "import" /\ segs[1] \in StdNamespaces)
        => (rout.ok /\ StartsWith(rout.v, <<<<"rust">>, <<"std">>>>))

\* reached: std::m resolved while a manifest naming m and a module file m.rs exist
C2_Witness ==
    /\ rpc = "done" /\ rfn = "import"
    /\ segs = <<<<"std">>, <<"m">>>>
    /\ FileModule \in exists /\ RootManifest \in exists
    /\ rout = Ok(<<<<"rust">>, <<"std">>, <<"std">>, <<"m">>>>)

\* the directory a self:: / super:: reference is relative to
RelativeBase(kw, sp) ==
    IF kw = <<"self">> THEN Parent(sp) ELSE
    IF Parent(sp).some THEN Parent(Parent(sp).v) ELSE None

\* C3: in every disk state a self:: reference resolves inside the referencing
\* file's directory and a super:: reference inside the directory above it.
C3_RelativeInsideDir ==
    (/\ rpc = "done" /\ rfn = "import"
     /\ Len(segs) >= 2 /\ segs[1] \in {<<"self">>, <<"super">>}
     /\ \A k \in 2..Len(segs) : segs[k] # <<>>
     /\ RelativeBase(segs[1], source_path).some)
        => (rout.ok /\ StartsWith(rout.v, RelativeBase(segs[1], source_path).v))

\* C4: from the entry file, crate::m::T resolves to src/m.rs when that file
\* exists and otherwise to src/m/mod.rs (the module m is present in one form).
C4_SubmoduleOfType ==
    (/\ rpc = "done" /\ rfn = "import"
     /\ source_path = EntryFile
     /\ segs = <<<<"crate">>, <<"m">>, <<"T">>>>
     /\ (FileModule \in exists \/ DirModule \in exists))
        => rout = Ok(IF FileModule \in exists THEN FileModule ELSE DirModule)

\* the manifest text names nm as the package or as a quoted entry
ManifestNames(nm) ==
    \E mp \in DOMAIN cargo :
        /\ cargo[mp].ok
        /\ \/ Contains(cargo[mp].text, <<"name = ", "\"">> \o nm \o <<"\"">>)
           \/ Contains(cargo[mp].text, <<"\"">> \o nm \o <<" ">>)

\* nm is declared in the package: src/nm.rs or src/nm/mod.rs exists
DeclaredLocally(nm) ==
    \/ (SrcDir \o <<nm \o RS>>) \in exists
    \/ (SrcDir \o <<nm, ModRs>>) \in exists

\* C5: a reference to an external name, not declared locally and without a match
\* in the manifest, resolves under the external namespace.
C5_UndeclaredExternal ==
    (/\ rpc = "done" /\ rfn = "import"
     /\ segs[1] \in {<<"m">>, <<"T">>}
     /\ source_path \in {EntryFile, NestedFile}
     /\ RootManifest \in exists /\ cargo[RootManifest].ok
     /\ ~DeclaredLocally(segs[1])
     /\ ~ManifestNames(segs[1]))
        => (rout.ok /\ StartsWith(rout.v, <<<<"external">>>>))

(***************************************************************************)
(* CodeGraph: CodeGraph::new, get_outgoing_dependencies and                *)
(* get_dependency_path.  A file of the graph is a one-component path,      *)
(* written as that component; its file name is the component itself.       *)
(***************************************************************************)
MaxDeps == 3

Nodes == {"A", "B", "C"}
DepTypes == {"Import", "FunctionCall"}
Dependency == [source : Nodes, target : Nodes, dependency_type : DepTypes]
DepLists == UNION {[1..n -> Dependency] : n \in 0..MaxDeps}

\* a file set that takes the sources only
RECURSIVE SourceSet(_)
SourceSet(ds) ==
    IF ds = <<>> THEN {} ELSE {Head(ds).source} \cup SourceSet(Tail(ds))

\* for dep in dependencies { file_set.insert(source); file_set.insert(target) }
RECURSIVE FileSet(_)
FileSet(ds) ==
    IF ds = <<>> THEN {}
    ELSE ({Head(ds).source} \cup {Head(ds).target}) \cup FileSet(Tail(ds))

\* the GraphNode made for a file
GraphNode(file) == [id |-> file, label |-> file, node_type |-> "File"]

\* the GraphEdge made for a dependency
GraphEdge(dep) ==
    [source |-> dep.source, target |-> dep.target, label |-> dep.dependency_type,
     edge_type |-> dep.dependency_type, weight |-> 1]

\* CodeGraph::new
CodeGraphNew(ds) ==
    [nodes |-> [file \in FileSet(ds) |-> GraphNode(file)],
     edges |-> [k \in 1..Len(ds) |-> GraphEdge(ds[k])]]

\* get_outgoing_dependencies: the edges leaving file, in edge-list order
RECURSIVE OutgoingOf(_, _)
OutgoingOf(edges, file) ==
    IF edges = <<>> THEN <<>>
    ELSE (IF Head(edges).source = file THEN <<Head(edges)>> ELSE <<>>)
         \o OutgoingOf(Tail(edges), file)

GetOutgoingDependencies(file) == OutgoingOf(graph.edges, file)

\* HashMap::insert
MapInsert(m, k, v) == [x \in (DOMAIN m) \cup {k} |-> IF x = k THEN v ELSE m[x]]

\* the loop with the predecessor entry written for every outgoing edge, visited
\* target or not
RECURSIVE VisitEdgesOverwrite(_, _, _)
VisitEdgesOverwrite(out, cur, st) ==
    IF out = <<>> THEN st
    ELSE LET edge == Head(out)
             pr == MapInsert(st.predecessor, edge.target, <<cur, edge>>)
         IN IF edge.target \notin st.visited
            THEN VisitEdgesOverwrite(Tail(out), cur,
                     [visited |-> st.visited \cup {edge.target},
                      queue |-> Append(st.queue, edge.target),
                      predecessor |-> pr])
            ELSE VisitEdgesOverwrite(Tail(out), cur,
                     [visited |-> st.visited, queue |-> st.queue, predecessor |-> pr])

\* the for loop over the outgoing edges of cur, carrying (visited, queue, predecessor)
RECURSIVE VisitEdges(_, _, _)
VisitEdges(out, cur, st) ==
    IF out = <<>> THEN st
    ELSE LET edge == Head(out)
         IN IF edge.target \notin st.visited
            THEN VisitEdges(Tail(out), cur,
                     [visited |-> st.visited \cup {edge.target},
                      queue |-> Append(st.queue, edge.target),
                      predecessor |-> MapInsert(st.predecessor, edge.target,
                                                <<cur, edge>>)])
            ELSE VisitEdges(Tail(out), cur, st)

\* CodeGraph::new(&dependencies)
GraphNew ==
    /\ gpc = "new"
    /\ graph' = CodeGraphNew(deps)
    /\ gpc' = "built"
    /\ UNCHANGED <<deps, source, target, queue, visited, predecessor, current, path,
                   gret, turns>>

\* get_dependency_path entered: the queue and the visited set hold source
BfsStart ==
    /\ gpc = "built"
    /\ \E s \in Nodes, t \in Nodes :
        /\ source' = s
        /\ target' = t
        /\ queue' = <<s>>
        /\ visited' = {s}
    /\ predecessor' = <<>>
    /\ gpc' = "bfs"
    /\ turns' = 0
    /\ UNCHANGED <<deps, graph, current, path, gret>>

\* a turn that tests for the target only once an edge has been followed
BfsPopSkipsSource ==
    /\ gpc = "bfs"
    /\ queue # <<>>
    /\ LET cur == Head(queue)
       IN IF cur = target /\ turns > 0
          THEN /\ current' = cur
               /\ path' = <<>>
               /\ gpc' = "walk"
               /\ queue' = Tail(queue)
               /\ UNCHANGED <<visited, predecessor>>
          ELSE LET st == VisitEdges(GetOutgoingDependencies(cur), cur,
                             [visited |-> visited, queue |-> Tail(queue),
                              predecessor |-> predecessor])
               IN /\ visited' = st.visited
                  /\ queue' = st.queue
                  /\ predecessor' = st.predecessor
                  /\ UNCHANGED <<current, path, gpc>>
    /\ turns' = turns + 1
    /\ UNCHANGED <<deps, graph, source, target, gret>>

\* one turn of `while let Some(current) = queue.pop_front()`
BfsPop ==
    /\ gpc = "bfs"
    /\ queue # <<>>
    /\ LET cur == Head(queue)
       IN IF cur = target
          THEN /\ current' = cur
               /\ path' = <<>>
               /\ gpc' = "walk"
               /\ queue' = Tail(queue)
               /\ UNCHANGED <<visited, predecessor>>
          ELSE LET st == VisitEdges(GetOutgoingDependencies(cur), cur,
                             [visited |-> visited, queue |-> Tail(queue),
                              predecessor |-> predecessor])
               IN /\ visited' = st.visited
                  /\ queue' = st.queue
                  /\ predecessor' = st.predecessor
                  /\ UNCHANGED <<current, path, gpc>>
    /\ turns' = turns + 1
    /\ UNCHANGED <<deps, graph, source, target, gret>>

\* the queue ran empty: None
BfsExhausted ==
    /\ gpc = "bfs"
    /\ queue = <<>>
    /\ gret' = None
    /\ gpc' = "done"
    /\ UNCHANGED <<deps, graph, source, target, queue, visited, predecessor, current,
                   path, turns>>

\* the pushed edges left in the order the walk met them
NotReversed(s) == s

\* a sequence reversed (Vec::reverse)
RECURSIVE Reverse(_)
Reverse(s) == IF s = <<>> THEN <<>> ELSE Append(Reverse(Tail(s)), Head(s))

\* one turn of `while &current != source`, or the return once it is over
WalkBack ==
    /\ gpc = "walk"
    /\ IF current # source
       THEN IF current \in DOMAIN predecessor
            THEN /\ path' = Append(path, predecessor[current][2])
                 /\ current' = predecessor[current][1]
                 /\ turns' = turns + 1
                 /\ UNCHANGED <<gpc, gret>>
            ELSE /\ gret' = None
                 /\ gpc' = "done"
                 /\ UNCHANGED <<current, path, turns>>
       ELSE /\ gret' = Some(Reverse(path))
            /\ gpc' = "done"
            /\ UNCHANGED <<current, path, turns>>
    /\ UNCHANGED <<deps, graph, source, target, queue, visited, predecessor>>

InitGraph ==
    /\ deps \in DepLists
    /\ graph = [nodes |-> <<>>, edges |-> <<>>]
    /\ source = "none"
    /\ target = "none"
    /\ queue = <<>>
    /\ visited = {}
    /\ predecessor = <<>>
    /\ current = "none"
    /\ path = <<>>
    /\ gpc = "new"
    /\ gret = None
    /\ turns = 0

NextGraph ==
    \/ GraphNew /\ UNCHANGED <<rvars, avars, cvars, mvars>>
    \/ BfsStart /\ UNCHANGED <<rvars, avars, cvars, mvars>>
    \/ BfsPop /\ UNCHANGED <<rvars, avars, cvars, mvars>>
    \/ BfsExhausted /\ UNCHANGED <<rvars, avars, cvars, mvars>>
    \/ WalkBack /\ UNCHANGED <<rvars, avars, cvars, mvars>>

InitG == InitGraph /\ ResolverIdle /\ AnalyzeIdle /\ CollectIdle /\ MetricsIdle

SpecGraph == InitG /\ [][NextGraph]_vars

(***************************************************************************)
(* Orchestrator: Analyzer::analyze_files with its progress channel.  The   *)
(* batch holds one-component paths; A and B end in .rs, U does not.        *)
(***************************************************************************)
MaxFiles == 3
ChanCap == 2

FilePaths == {"A", "B", "U"}
FileLists == UNION {[1..n -> FilePaths] : n \in 0..MaxFiles}

\* Path::extension
Extension(f) == IF f = "U" THEN "py" ELSE "rs"

\* RustAnalyzer::supported_extensions
SupportedExtensions == {"rs"}

\* LanguageAnalyzer::is_supported
IsSupported(f) == Extension(f) \in SupportedExtensions

\* get_analyzer_for_file: the first registered analyzer that supports the file
GetAnalyzerForFile(f) == IF IsSupported(f) THEN Some("Rust") ELSE None

\* what extract_dependencies may return for f, every edge starting at f: nothing,
\* an import of C, or a local call (target f) followed by an import of B
FileDeps(f) ==
    {<<>>,
     <<[source |-> f, target |-> "C", dependency_type |-> "Import"]>>,
     <<[source |-> f, target |-> f, dependency_type |-> "FunctionCall"],
       [source |-> f, target |-> "B", dependency_type |-> "Import"]>>}

\* the file in hand
CurFile == files[idx + 1]

\* a turn that leaves the loop after its file
NextTurnBreaks ==
    /\ idx' = idx + 1
    /\ apc' = "build"

\* the end of one turn of the for loop
NextTurn ==
    /\ idx' = idx + 1
    /\ apc' = IF idx + 1 < Len(files) THEN "send" ELSE "build"

\* a ProgressUpdate that counts the files from zero
UpdateZeroBased == [current |-> idx, total |-> Len(files), current_item |-> CurFile]

\* the ProgressUpdate of the file in hand
Update == [current |-> idx + 1, total |-> Len(files), current_item |-> CurFile]

\* no sender was supplied: nothing is sent
NoProgress ==
    /\ apc = "send"
    /\ ~progress_tx
    /\ apc' = "analyze"
    /\ UNCHANGED <<files, idx, file_analyses, dependencies, result, progress_tx,
                   chan, rx_closed, received, calls>>

\* tx.send(update).await with room in the channel
SendProgress ==
    /\ apc = "send"
    /\ progress_tx /\ ~rx_closed
    /\ Len(chan) < ChanCap
    /\ chan' = Append(chan, Update)
    /\ apc' = "analyze"
    /\ UNCHANGED <<files, idx, file_analyses, dependencies, result, progress_tx,
                   rx_closed, received, calls>>

\* a send error that is propagated to the caller
SendFailedAborts ==
    /\ apc = "send"
    /\ progress_tx /\ rx_closed
    /\ result' = Err
    /\ apc' = "done"
    /\ UNCHANGED <<files, idx, file_analyses, dependencies, progress_tx, chan,
                   rx_closed, received, calls>>

\* tx.send(update).await on a closed channel: the error is logged
SendFailed ==
    /\ apc = "send"
    /\ progress_tx /\ rx_closed
    /\ apc' = "analyze"
    /\ UNCHANGED <<files, idx, file_analyses, dependencies, result, progress_tx,
                   chan, rx_closed, received, calls>>

\* no analyzer supports the file: the turn does nothing else
SkipUnsupported ==
    /\ apc = "analyze"
    /\ ~GetAnalyzerForFile(CurFile).some
    /\ calls' = Append(calls, [analyze |-> "unsupported", extract |-> "unsupported",
                               deps |-> <<>>])
    /\ NextTurn
    /\ UNCHANGED <<files, file_analyses, dependencies, result, progress_tx, chan,
                   rx_closed, received>>

\* an analyze_file whose extract_dependencies is left running while the loop
\* goes on to the next file
AnalyzeFileOkSpawns ==
    /\ apc = "analyze"
    /\ GetAnalyzerForFile(CurFile).some
    /\ file_analyses' = Append(file_analyses, [path |-> CurFile, language |-> "Rust"])
    /\ calls' = Append(calls, [analyze |-> "ok", extract |-> "pending", deps |-> <<>>])
    /\ NextTurn
    /\ UNCHANGED <<files, dependencies, result, progress_tx, chan, rx_closed, received>>

\* analyze_file returned Ok
AnalyzeFileOk ==
    /\ apc = "analyze"
    /\ GetAnalyzerForFile(CurFile).some
    /\ file_analyses' = Append(file_analyses, [path |-> CurFile, language |-> "Rust"])
    /\ calls' = Append(calls, [analyze |-> "ok", extract |-> "pending", deps |-> <<>>])
    /\ apc' = "extract"
    /\ UNCHANGED <<files, idx, dependencies, result, progress_tx, chan, rx_closed,
                   received>>

\* an analyze_file error that ends the run
AnalyzeFileErrAborts ==
    /\ apc = "analyze"
    /\ GetAnalyzerForFile(CurFile).some
    /\ calls' = Append(calls, [analyze |-> "err", extract |-> "pending", deps |-> <<>>])
    /\ result' = Err
    /\ apc' = "done"
    /\ UNCHANGED <<files, idx, file_analyses, dependencies, progress_tx, chan,
                   rx_closed, received>>

\* analyze_file returned Err: logged
AnalyzeFileErr ==
    /\ apc = "analyze"
    /\ GetAnalyzerForFile(CurFile).some
    /\ calls' = Append(calls, [analyze |-> "err", extract |-> "pending", deps |-> <<>>])
    /\ apc' = "extract"
    /\ UNCHANGED <<files, idx, file_analyses, dependencies, result, progress_tx, chan,
                   rx_closed, received>>

\* extract_dependencies returned Ok(file_deps)
ExtractOk ==
    /\ apc = "extract"
    /\ \E file_deps \in FileDeps(CurFile) :
        /\ dependencies' = dependencies \o file_deps
        /\ calls' = [calls EXCEPT ![idx + 1].extract = "ok", ![idx + 1].deps = file_deps]
    /\ NextTurn
    /\ UNCHANGED <<files, file_analyses, result, progress_tx, chan, rx_closed, received>>

\* extract_dependencies returned Err: logged
ExtractErr ==
    /\ apc = "extract"
    /\ calls' = [calls EXCEPT ![idx + 1].extract = "err"]
    /\ NextTurn
    /\ UNCHANGED <<files, file_analyses, dependencies, result, progress_tx, chan,
                   rx_closed, received>>

\* the graph and the AnalysisResult, returned Ok
BuildResult ==
    /\ apc = "build"
    /\ result' = Ok([file_analyses |-> file_analyses,
                     dependencies |-> dependencies,
                     graph |-> CodeGraphNew(dependencies),
                     project_structure |-> None])
    /\ apc' = "done"
    /\ UNCHANGED <<files, idx, file_analyses, dependencies, progress_tx, chan,
                   rx_closed, received, calls>>

\* display_progress_bar: rx.recv().await took an event
RecvProgress ==
    /\ ~rx_closed
    /\ chan # <<>>
    /\ received' = Append(received, Head(chan))
    /\ chan' = Tail(chan)
    /\ UNCHANGED <<files, idx, apc, file_analyses, dependencies, result, progress_tx,
                   rx_closed, calls>>

\* the receiver is dropped; what the channel held is gone
CloseReceiver ==
    /\ progress_tx
    /\ ~rx_closed
    /\ apc # "done"
    /\ rx_closed' = TRUE
    /\ chan' = <<>>
    /\ UNCHANGED <<files, idx, apc, file_analyses, dependencies, result, progress_tx,
                   received, calls>>

InitAnalyze ==
    /\ files \in FileLists
    /\ idx = 0
    /\ apc = IF Len(files) = 0 THEN "build" ELSE "send"
    /\ file_analyses = <<>>
    /\ dependencies = <<>>
    /\ result = Err
    /\ progress_tx \in BOOLEAN
    /\ chan = <<>>
    /\ rx_closed = FALSE
    /\ received = <<>>
    /\ calls = <<>>

NextAnalyze ==
    \/ NoProgress /\ UNCHANGED <<rvars, gvars, cvars, mvars>>
    \/ SendProgress /\ UNCHANGED <<rvars, gvars, cvars, mvars>>
    \/ SendFailed /\ UNCHANGED <<rvars, gvars, cvars, mvars>>
    \/ SkipUnsupported /\ UNCHANGED <<rvars, gvars, cvars, mvars>>
    \/ AnalyzeFileOk /\ UNCHANGED <<rvars, gvars, cvars, mvars>>
    \/ AnalyzeFileErr /\ UNCHANGED <<rvars, gvars, cvars, mvars>>
    \/ ExtractOk /\ UNCHANGED <<rvars, gvars, cvars, mvars>>
    \/ ExtractErr /\ UNCHANGED <<rvars, gvars, cvars, mvars>>
    \/ BuildResult /\ UNCHANGED <<rvars, gvars, cvars, mvars>>
    \/ RecvProgress /\ UNCHANGED <<rvars, gvars, cvars, mvars>>
    \/ CloseReceiver /\ UNCHANGED <<rvars, gvars, cvars, mvars>>

InitA == InitAnalyze /\ ResolverIdle /\ GraphIdle /\ CollectIdle /\ MetricsIdle

SpecAnalyze == InitA /\ [][NextAnalyze]_vars

(***************************************************************************)
(* File-set collection: analyze_full and analyze_incremental up to their   *)
(* call of analyze_files.  D is the project root; A (.rs) and U (.py) are  *)
(* files in it, B (.rs) is a file outside it, X names nothing on disk.     *)
(***************************************************************************)
MaxPaths == 2

ProjectDir == "D"
PathArgs == {"A", "B", "D", "X"}
PathLists == UNION {[1..n -> PathArgs] : n \in 0..MaxPaths}

\* Path::is_file, Path::is_dir
IsFile(p) == p \in FilePaths
IsDir(p) == p = ProjectDir

\* what the walker yields for D: its files, or "ERR" for an entry it could
\* not read
Walks == {<<"A", "U">>, <<"A", "ERR">>}

\* .zsei/state.json: missing, unreadable or unparsable, or a state that tracks
\* A as unchanged, as modified since, or whose metadata can no longer be read
StateFiles == {"absent", "corrupt", "unchanged", "modified", "nometadata"}

\* IndexingConfig::default: the extensions of the model's files among the
\* included ones
IncludeExtensions == {"rs", "py"}

\* Project::new: the state, or the error of reading it
ProjectNew ==
    IF state_file = "corrupt" THEN Err
    ELSE Ok([analyzed_files |->
                IF state_file = "absent" THEN [f \in {} |-> "none"]
                ELSE [f \in {"A"} |-> state_file]])

\* scan_project_files: the file entries of the walk; Err entries are logged
ScanProjectFiles == Ok(SelectSeq(walk, LAMBDA e : e # "ERR"))

\* is_excluded: the extension is not an included one (no default pattern
\* matches a file of the model, and all of them are valid globs)
IsExcluded(f) == Ok(Extension(f) \notin IncludeExtensions)

\* should_process_file
ShouldProcessFile(f, incr, tracked_files) ==
    IF IsExcluded(f).v THEN Ok(FALSE)
    ELSE IF ~incr THEN Ok(TRUE)
    ELSE IF f \in DOMAIN tracked_files
         THEN IF tracked_files[f] = "nometadata" THEN Err
              ELSE Ok(tracked_files[f] = "modified")
         ELSE Ok(TRUE)

\* the loop of get_files_to_process over the scanned files
RECURSIVE ProcessLoop(_, _, _)
ProcessLoop(fs, incr, tracked_files) ==
    IF fs = <<>> THEN Ok(<<>>)
    ELSE LET s == ShouldProcessFile(Head(fs), incr, tracked_files)
             r == ProcessLoop(Tail(fs), incr, tracked_files)
         IN IF ~s.ok \/ ~r.ok THEN Err
            ELSE Ok((IF s.v THEN <<Head(fs)>> ELSE <<>>) \o r.v)

\* Project::get_files_to_analyze
GetFilesToAnalyze(project, incr) ==
    IF ~ScanProjectFiles.ok THEN Err
    ELSE ProcessLoop(ScanProjectFiles.v, incr, project.analyzed_files)

\* collect_files_from_dir: the supported files of the walk; Err entries are
\* logged
CollectFilesFromDir(dir) ==
    Ok(SelectSeq(walk, LAMBDA e : e # "ERR" /\ IsFile(e) /\ IsSupported(e)))

\* the loop of collect_files_to_analyze over the paths argument
RECURSIVE PathsLoop(_)
PathsLoop(ps) ==
    IF ps = <<>> THEN Ok(<<>>)
    ELSE LET p == Head(ps)
             here == IF IsFile(p) THEN Ok(IF IsSupported(p) THEN <<p>> ELSE <<>>)
                     ELSE IF IsDir(p) THEN CollectFilesFromDir(p)
                     ELSE Ok(<<>>)
             r == PathsLoop(Tail(ps))
         IN IF ~here.ok \/ ~r.ok THEN Err ELSE Ok(here.v \o r.v)

\* a collection whose incremental run keeps the files listed from the paths
CollectFilesToAnalyzeListed(ps, incr) ==
    LET project == ProjectNew
    IN IF ~project.ok THEN Err
       ELSE IF ps = <<>> THEN GetFilesToAnalyze(project.v, incr)
       ELSE PathsLoop(ps)

\* collect_files_to_analyze
CollectFilesToAnalyze(ps, incr) ==
    LET project == ProjectNew
    IN IF ~project.ok THEN Err
       ELSE LET listed == IF ps = <<>> THEN GetFilesToAnalyze(project.v, incr)
                          ELSE PathsLoop(ps)
            IN IF ~listed.ok THEN Err
               ELSE IF incr THEN GetFilesToAnalyze(project.v, TRUE)
               ELSE listed

\* Project::new(..)? of analyze_full / analyze_incremental failed
ProjectNewErr ==
    /\ apc = "project"
    /\ ~ProjectNew.ok
    /\ result' = Err
    /\ apc' = "done"
    /\ UNCHANGED <<files, idx, file_analyses, dependencies, progress_tx, chan,
                   rx_closed, received, calls, cvars>>

\* Project::new(..)? returned the project
ProjectNewOk ==
    /\ apc = "project"
    /\ ProjectNew.ok
    /\ apc' = "collect"
    /\ UNCHANGED <<files, idx, file_analyses, dependencies, result, progress_tx,
                   chan, rx_closed, received, calls, cvars>>

\* collect_files_to_analyze(..)? failed
CollectErr ==
    /\ apc = "collect"
    /\ ~CollectFilesToAnalyze(paths, incremental).ok
    /\ result' = Err
    /\ apc' = "done"
    /\ UNCHANGED <<files, idx, file_analyses, dependencies, progress_tx, chan,
                   rx_closed, received, calls, cvars>>

\* collect_files_to_analyze(..)? returned the files: analyze_files starts
CollectOk ==
    /\ apc = "collect"
    /\ CollectFilesToAnalyze(paths, incremental).ok
    /\ files' = CollectFilesToAnalyze(paths, incremental).v
    /\ apc' = IF Len(files') = 0 THEN "build" ELSE "send"
    /\ UNCHANGED <<idx, file_analyses, dependencies, result, progress_tx, chan,
                   rx_closed, received, calls, cvars>>

InitCollect ==
    /\ paths \in PathLists
    /\ incremental \in BOOLEAN
    /\ state_file \in StateFiles
    /\ walk \in Walks
    /\ files = <<>>
    /\ idx = 0
    /\ apc = "project"
    /\ file_analyses = <<>>
    /\ dependencies = <<>>
    /\ result = Err
    /\ progress_tx \in BOOLEAN
    /\ chan = <<>>
    /\ rx_closed = FALSE
    /\ received = <<>>
    /\ calls = <<>>

NextCollect ==
    \/ ProjectNewErr /\ UNCHANGED <<rvars, gvars, mvars>>
    \/ ProjectNewOk /\ UNCHANGED <<rvars, gvars, mvars>>
    \/ CollectErr /\ UNCHANGED <<rvars, gvars, mvars>>
    \/ CollectOk /\ UNCHANGED <<rvars, gvars, mvars>>
    \/ NextAnalyze

InitC == InitCollect /\ ResolverIdle /\ GraphIdle /\ MetricsIdle

SpecCollect == InitC /\ [][NextCollect]_vars

\* a graph built alone, or the graph of a batch run
InitGA == InitG \/ InitA

NextGraphAnalyze == NextGraph \/ NextAnalyze

SpecGraphAnalyze == InitGA /\ [][NextGraphAnalyze]_vars

(***************************************************************************)
(* Metrics: calculate_cyclomatic_complexity, calculate_maintainability_index *)
(* and the metrics part of analyze_file.  A body is a sequence of atoms:   *)
(* keyword chunks, operators, the character "|" and other text "x".        *)
(* f64 values are NaN, an infinity, or a finite number in thousandths.     *)
(***************************************************************************)
MaxBody == 2
MaxLoc == 3
MaxComplexity == 2
MaxFns == 2

\* str::matches(pat).count(): non-overlapping matches from the left
RECURSIVE MatchCount(_, _)
MatchCount(s, pat) ==
    IF Len(s) < Len(pat) THEN 0
    ELSE IF SubSeq(s, 1, Len(pat)) = pat
         THEN 1 + MatchCount(SubSeq(s, Len(pat) + 1, Len(s)), pat)
         ELSE MatchCount(Tail(s), pat)

ControlFlowPatterns ==
    << <<"if ">>, <<"else ">>, <<"match ">>, <<"for ">>, <<"while ">>, <<"loop">>,
       <<"&&">>, <<"|", "|">>, <<"?">>, <<"return">>, <<"break">>, <<"continue">> >>

\* the sum of the first n pattern counts
RECURSIVE PatternMatches(_, _)
PatternMatches(b, n) ==
    IF n = 0 THEN 0
    ELSE PatternMatches(b, n - 1) + MatchCount(b, ControlFlowPatterns[n])

\* body.matches("|").count() / 2
ClosureCount(b) == MatchCount(b, <<"|">>) \div 2

CalculateCyclomaticComplexity(b) ==
    1 + PatternMatches(b, Len(ControlFlowPatterns)) + ClosureCount(b)

\* f64 values
NaN == [k |-> "nan"]
Inf(sign) == [k |-> "inf", s |-> sign]
Fin(m) == [k |-> "fin", m |-> m]

\* round(1000 * ln n) for n = 1..15
LnMilli ==
    <<0, 693, 1099, 1386, 1609, 1792, 1946, 2079, 2197, 2303, 2398, 2485, 2565,
      2639, 2708>>

\* f64::ln of a non-negative whole number
FLn(n) == IF n = 0 THEN Inf(-1) ELSE Fin(LnMilli[n])

\* round(1000 * sin(sqrt(2.4 * c / l))) for l = 1..5 (rows) and c = 0..5
SinSqrtMilli ==
    << <<0, 1000, 814, 442, 43, -317>>,
       <<0, 889, 1000, 947, 814, 638>>,
       <<0, 780, 954, 1000, 976, 909>>,
       <<0, 699, 889, 974, 1000, 987>>,
       <<0, 639, 830, 932, 983, 1000>> >>

\* (2.4 * comment_ratio).sqrt().sin(), the ratio being 0.0 when loc = 0
SinSqrt(c, l) == IF l = 0 THEN Fin(0) ELSE Fin(SinSqrtMilli[l][c + 1])

\* the product of x and the positive constant num / den
FScale(num, den, x) ==
    IF x.k = "fin" THEN Fin((x.m * num) \div den) ELSE x

FNeg(x) ==
    IF x.k = "fin" THEN Fin(-x.m)
    ELSE IF x.k = "inf" THEN Inf(-x.s)
    ELSE x

FAdd(x, y) ==
    IF x.k = "nan" \/ y.k = "nan" THEN NaN
    ELSE IF x.k = "inf" /\ y.k = "inf" THEN (IF x.s = y.s THEN x ELSE NaN)
    ELSE IF x.k = "inf" THEN x
    ELSE IF y.k = "inf" THEN y
    ELSE Fin(x.m + y.m)

FSub(x, y) == FAdd(x, FNeg(y))

\* x <= y for values that are not NaN
FLeq(x, y) ==
    IF x.k = "inf" THEN x.s = -1 \/ (y.k = "inf" /\ y.s = 1)
    ELSE IF y.k = "inf" THEN y.s = 1
    ELSE x.m <= y.m

\* f64::min and f64::max: a NaN operand yields the other operand
FMin(x, y) == IF x.k = "nan" THEN y ELSE IF y.k = "nan" THEN x
              ELSE IF FLeq(x, y) THEN x ELSE y
FMax(x, y) == IF x.k = "nan" THEN y ELSE IF y.k = "nan" THEN x
              ELSE IF FLeq(x, y) THEN y ELSE x

\* a normalisation that only rescales
Unclamped(x) == FScale(100, 171, x)

\* (mi * 100.0 / 171.0).min(100.0).max(0.0)
Normalize(x) == FMax(FMin(FScale(100, 171, x), Fin(100000)), Fin(0))

CalculateMaintainabilityIndex(l, c, g) ==
    LET halstead_volume == l * 3
        mi == FAdd(FSub(FSub(FSub(Fin(171000),
                                  FScale(52, 10, FLn(halstead_volume))),
                             FScale(23, 100, Fin(g * 1000))),
                        FScale(162, 10, FLn(l))),
                   FScale(50, 1, SinSqrt(c, l)))
    IN Normalize(mi)

\* the function bodies of the file: fn_count functions with the body in hand
Functions == [i \in 1..fn_count |-> body]

\* functions.iter().map(|f| f.metrics.complexity).sum()
RECURSIVE SumComplexity(_, _)
SumComplexity(fs, n) ==
    IF n = 0 THEN 0
    ELSE SumComplexity(fs, n - 1) + CalculateCyclomaticComplexity(fs[n])

\* the CodeMetrics of analyze_file
FileMetrics ==
    LET g == SumComplexity(Functions, fn_count)
    IN [loc |-> loc,
        comment_lines |-> comment_lines,
        function_count |-> fn_count,
        complexity |-> g,
        maintainability_index |-> CalculateMaintainabilityIndex(loc, comment_lines, g)]

BodyAtoms == {"if ", "|", "?", "x"}
Bodies == UNION {[1..n -> BodyAtoms] : n \in 0..MaxBody}

\* one branching construct each
Constructs == {<<"if ">>, <<"match ">>, <<"&&">>, <<"|", "|">>, <<"?">>}

\* the sequences of a sequence put end to end
RECURSIVE Concat(_)
Concat(ss) == IF ss = <<>> THEN <<>> ELSE Head(ss) \o Concat(Tail(ss))

\* usize on a 64-bit target, for values within a small distance of 0 or of 2^64:
\* [top |-> FALSE, off |-> n] is n (n >= 0), [top |-> TRUE, off |-> n] is 2^64 + n
\* (n < 0).  `n as usize` of an isize n
AsUsize(n) == [top |-> n < 0, off |-> n]

\* a + b on usize: the sum modulo 2^64, and whether it passed 2^64
UsizeAdd(a, b) ==
    LET tops == (IF a.top THEN 1 ELSE 0) + (IF b.top THEN 1 ELSE 0)
        off == a.off + b.off
    IN [overflow |-> tops = 2 \/ (tops = 1 /\ off >= 0),
        v |-> [top |-> off < 0, off |-> off]]

\* str::lines
RECURSIVE Lines(_)
Lines(s) ==
    IF s = <<>> THEN <<>>
    ELSE LET ends == {i \in 1..Len(s) : s[i] = "\n"}
         IN IF ends = {} THEN <<s>>
            ELSE LET e == CHOOSE i \in ends : \A j \in ends : i <= j
                 IN <<SubSeq(s, 1, e - 1)>> \o Lines(SubSeq(s, e + 1, Len(s)))

\* line.contains of one of the control-flow keywords
ContainsControlFlow(line) ==
    \E kw \in {"if ", "else ", "match ", "for ", "while ", "loop"} :
        MatchCount(line, <<kw>>) > 0

\* the counts added before the loop over the lines
CognitiveBase(b) ==
    MatchCount(b, <<"if ">>) + MatchCount(b, <<"else ">>)
    + MatchCount(b, <<"match ">>) * 2 + MatchCount(b, <<"for ">>)
    + MatchCount(b, <<"while ">>) + MatchCount(b, <<"loop">>)
    + MatchCount(b, <<"&&">>) + MatchCount(b, <<"|", "|">>)
    + MatchCount(b, <<"Result<">>) + MatchCount(b, <<"Option<">>)
    + MatchCount(b, <<"?">>) + MatchCount(b, <<"(">>)
    + (MatchCount(b, <<".">>) \div 2)

\* the loop over the lines, carrying (nesting_level, complexity); an addition
\* that passes 2^64 panics in a build with overflow checks and wraps in one without
RECURSIVE NestingLoop(_, _, _, _, _)
NestingLoop(ls, nesting_level, c, wrapped, overflow_checks) ==
    IF ls = <<>> THEN [panic |-> FALSE, wrapped |-> wrapped, v |-> c]
    ELSE LET line == Head(ls)
             opening_braces == MatchCount(line, <<"{">>)
             closing_braces == MatchCount(line, <<"}">>)
             level == nesting_level + opening_braces - closing_braces
         IN IF ContainsControlFlow(line)
            THEN LET sum == UsizeAdd(c, AsUsize(level))
                 IN IF sum.overflow /\ overflow_checks
                    THEN [panic |-> TRUE, wrapped |-> wrapped, v |-> c]
                    ELSE NestingLoop(Tail(ls), level, sum.v, wrapped \/ sum.overflow,
                                     overflow_checks)
            ELSE NestingLoop(Tail(ls), level, c, wrapped, overflow_checks)

CalculateCognitiveComplexity(b, overflow_checks) ==
    NestingLoop(Lines(b), 0, AsUsize(CognitiveBase(b)), FALSE, overflow_checks)

\* the lines between the braces of a function body:
\*   x "}}"      if x {      }      } else {      if x {}
MaxLines == 2

InnerLines ==
    {<<"x", "\"", "}", "}", "\"">>, <<"if ", "x", "{">>, <<"}">>,
     <<"}", "else ", "{">>, <<"if ", "x", "{", "}">>}

\* the brace depth of code text, the braces inside string literals left out:
\* -1 once a closing brace has no opening one
RECURSIVE CodeDepth(_, _, _)
CodeDepth(s, depth, in_string) ==
    IF s = <<>> \/ depth < 0 THEN depth
    ELSE IF Head(s) = "\"" THEN CodeDepth(Tail(s), depth, ~in_string)
    ELSE IF in_string THEN CodeDepth(Tail(s), depth, in_string)
    ELSE IF Head(s) = "{" THEN CodeDepth(Tail(s), depth + 1, in_string)
    ELSE IF Head(s) = "}" THEN CodeDepth(Tail(s), depth - 1, in_string)
    ELSE CodeDepth(Tail(s), depth, in_string)

\* the text of a block: "{", the inner lines, "}", one line each
BlockText(inner) ==
    <<"{">> \o Concat([i \in 1..Len(inner) |-> <<"\n">> \o inner[i]]) \o <<"\n", "}">>

\* the bodies the function query captures: blocks whose braces match
BlockBodies ==
    {BlockText(inner) : inner \in
        {ls \in UNION {[1..n -> InnerLines] : n \in 0..MaxLines} :
            CodeDepth(Concat(ls), 0, FALSE) = 0}}

CallCalculateCognitiveComplexity ==
    /\ mpc = "start" /\ mfn = "cognitive"
    /\ \E overflow_checks \in BOOLEAN :
           mout' = CalculateCognitiveComplexity(body, overflow_checks)
    /\ mpc' = "done"
    /\ UNCHANGED <<body, construct, fn_count, loc, comment_lines, complexity, mfn>>

CallCalculateCyclomaticComplexity ==
    /\ mpc = "start" /\ mfn = "cyclomatic"
    /\ mout' = [before |-> CalculateCyclomaticComplexity(body),
                after |-> CalculateCyclomaticComplexity(body \o construct)]
    /\ mpc' = "done"
    /\ UNCHANGED <<body, construct, fn_count, loc, comment_lines, complexity, mfn>>

CallCalculateMaintainabilityIndex ==
    /\ mpc = "start" /\ mfn = "maintainability"
    /\ mout' = CalculateMaintainabilityIndex(loc, comment_lines, complexity)
    /\ mpc' = "done"
    /\ UNCHANGED <<body, construct, fn_count, loc, comment_lines, complexity, mfn>>

CallAnalyzeFile ==
    /\ mpc = "start" /\ mfn = "analyze_file"
    /\ mout' = FileMetrics
    /\ mpc' = "done"
    /\ UNCHANGED <<body, construct, fn_count, loc, comment_lines, complexity, mfn>>

\* the inputs of one call; a file has at least one line per function and no
\* more comment lines than lines
InitMetrics ==
    /\ mpc = "start"
    /\ mout = None
    /\ \/ /\ mfn = "cyclomatic"
          /\ body \in Bodies /\ construct \in Constructs
          /\ fn_count = 0 /\ loc = 0 /\ comment_lines = 0 /\ complexity = 0
       \/ /\ mfn = "maintainability"
          /\ loc \in 0..MaxLoc /\ comment_lines \in 0..MaxLoc
          /\ complexity \in 0..MaxComplexity
          /\ body = <<>> /\ construct = <<>> /\ fn_count = 0
       \/ /\ mfn = "analyze_file"
          /\ body \in Bodies /\ fn_count \in 0..MaxFns
          /\ loc \in fn_count..MaxLoc /\ comment_lines \in 0..loc
          /\ construct = <<>> /\ complexity = 0
       \/ /\ mfn = "cognitive"
          /\ body \in BlockBodies
          /\ construct = <<>> /\ fn_count = 0 /\ loc = 0 /\ comment_lines = 0
          /\ complexity = 0

NextMetrics ==
    \/ CallCalculateCyclomaticComplexity /\ UNCHANGED <<rvars, gvars, avars, cvars>>
    \/ CallCalculateMaintainabilityIndex /\ UNCHANGED <<rvars, gvars, avars, cvars>>
    \/ CallAnalyzeFile /\ UNCHANGED <<rvars, gvars, avars, cvars>>
    \/ CallCalculateCognitiveComplexity /\ UNCHANGED <<rvars, gvars, avars, cvars>>

InitM == InitMetrics /\ ResolverIdle /\ GraphIdle /\ AnalyzeIdle /\ CollectIdle

SpecMetrics == InitM /\ [][NextMetrics]_vars

(***************************************************************************)
(* Properties of the graph and of the batch run                            *)
(***************************************************************************)
\* g has exactly the endpoints of ds as node keys and one edge per element of
\* ds, in order, with its source, target and type and weight 1
GraphMatches(g, ds) ==
    /\ \A p \in Nodes \cup DOMAIN g.nodes :
          p \in DOMAIN g.nodes <=>
              \E k \in 1..Len(ds) : ds[k].source = p \/ ds[k].target = p
    /\ Len(g.edges) = Len(ds)
    /\ \A k \in 1..Len(ds) :
          /\ g.edges[k].source = ds[k].source
          /\ g.edges[k].target = ds[k].target
          /\ g.edges[k].edge_type = ds[k].dependency_type
          /\ g.edges[k].weight = 1

\* C6: CodeGraph::new yields the endpoints of the dependency list as node keys
\* and one edge per dependency, in order, with weight 1; the graph of an
\* AnalysisResult is that graph of the result's dependency list.
C6_GraphOfDependencies ==
    /\ gpc \in {"built", "bfs", "walk", "done"} => GraphMatches(graph, deps)
    /\ apc = "done" =>
          /\ result.ok
          /\ result.v.dependencies = dependencies
          /\ GraphMatches(result.v.graph, result.v.dependencies)

\* reached: a graph built from two dependencies that share an endpoint
C6_Witness ==
    /\ gpc = "built"
    /\ Len(deps) = 2 /\ deps[1].target = deps[2].source /\ deps[1].source # deps[2].target
    /\ deps[1].source # deps[1].target
    /\ Cardinality(DOMAIN graph.nodes) = 3 /\ Len(graph.edges) = 2

\* the nodes reached from the set S along at most k dependencies
RECURSIVE Within(_, _)
Within(S, k) ==
    IF k = 0 THEN S
    ELSE LET R == Within(S, k - 1)
         IN R \cup {deps[j].target : j \in {j \in 1..Len(deps) : deps[j].source \in R}}

Reachable(s, t) == t \in Within({s}, Len(deps))

\* p is a sequence of edges of the graph leading from s to t
IsChain(p, s, t) ==
    /\ \A k \in 1..Len(p) : \E j \in 1..Len(graph.edges) : graph.edges[j] = p[k]
    /\ IF p = <<>> THEN s = t
       ELSE /\ p[1].source = s
            /\ p[Len(p)].target = t
            /\ \A k \in 1..(Len(p) - 1) : p[k + 1].source = p[k].target

\* the files of the graph, with the source of the search
SearchNodes == DOMAIN graph.nodes \cup {source}

\* C7: get_dependency_path ends: its two loops take no more turns than twice the
\* number of files and a step is always left until it returns; it returns a path
\* exactly when target is reachable from source, and the path is a chain of edges
\* from source to target.
C7_PathIffReachable ==
    /\ gpc \in {"bfs", "walk", "done"} => turns <= 2 * Cardinality(SearchNodes)
    /\ gpc \in {"bfs", "walk"} => ENABLED (BfsPop \/ BfsExhausted \/ WalkBack)
    /\ gpc = "done" =>
          /\ gret.some <=> Reachable(source, target)
          /\ gret.some => IsChain(gret.v, source, target)

\* reached: A -> B, B -> C gives the path [A -> B, B -> C] from A to C
C7_Witness ==
    /\ gpc = "done"
    /\ Len(deps) = 2
    /\ deps[1].source = "A" /\ deps[1].target = "B"
    /\ deps[2].source = "B" /\ deps[2].target = "C"
    /\ source = "A" /\ target = "C"
    /\ gret = Some(<<graph.edges[1], graph.edges[2]>>)

\* C8: a returned path has the least number of edges of all paths from source
\* to target.
C8_PathIsShortest ==
    (gpc = "done" /\ gret.some) =>
        /\ target \in Within({source}, Len(gret.v))
        /\ Len(gret.v) > 0 => target \notin Within({source}, Len(gret.v) - 1)

\* reached: with A -> B, B -> C and A -> C the path from A to C is the one edge
C8_Witness ==
    /\ gpc = "done"
    /\ Len(deps) = 3
    /\ deps[1].source = "A" /\ deps[1].target = "B"
    /\ deps[2].source = "B" /\ deps[2].target = "C"
    /\ deps[3].source = "A" /\ deps[3].target = "C"
    /\ source = "A" /\ target = "C"
    /\ gret = Some(<<graph.edges[3]>>)

\* both analyzer calls of the file at position k returned Ok
Succeeded(k) == calls[k].analyze = "ok" /\ calls[k].extract = "ok"

\* an analyzer call of the file at position k returned Err
Failed(k) == calls[k].analyze = "err" \/ calls[k].extract = "err"

\* C9: a failing file never aborts the batch: analyze_files returns Ok, every
\* file of the list is processed, and every file whose calls succeeded has its
\* FileAnalysis and its dependencies in the result.
C9_BatchNeverAborts ==
    apc = "done" =>
        /\ result.ok
        /\ Len(calls) = Len(files)
        /\ \A k \in 1..Len(files) :
              /\ calls[k].analyze # "pending" /\ calls[k].extract # "pending"
              /\ Succeeded(k) =>
                    /\ \E n \in 1..Len(result.v.file_analyses) :
                          result.v.file_analyses[n].path = files[k]
                    /\ \A m \in 1..Len(calls[k].deps) :
                          \E n \in 1..Len(result.v.dependencies) :
                              result.v.dependencies[n] = calls[k].deps[m]

\* reached: the first file failed in both calls, the second one succeeded and
\* its results are returned
C9_Witness ==
    /\ apc = "done" /\ result.ok
    /\ Len(files) = 2 /\ files[1] # files[2]
    /\ calls[1].analyze = "err" /\ calls[1].extract = "err"
    /\ Succeeded(2) /\ Len(calls[2].deps) = 2
    /\ Len(result.v.file_analyses) = 1
    /\ result.v.file_analyses[1].path = files[2]
    /\ result.v.dependencies = calls[2].deps

\* C10: a file with a failed analyzer call is skipped as a whole: the result
\* holds no FileAnalysis of it and no Dependency that starts at it.
C10_FailedFileSkipped ==
    (apc = "done" /\ result.ok) =>
        \A k \in 1..Len(files) :
            (Failed(k) /\ \A j \in 1..Len(files) : files[j] = files[k] => j = k) =>
                /\ \A n \in 1..Len(result.v.file_analyses) :
                      result.v.file_analyses[n].path # files[k]
                /\ \A n \in 1..Len(result.v.dependencies) :
                      result.v.dependencies[n].source # files[k]

\* the events sent so far that the consumer has taken or can still take
Sent == received \o chan

\* the number of files whose send step is over
SendsDone == IF apc \in {"analyze", "extract"} THEN idx + 1 ELSE idx

\* C11: while the progress channel is open, the events sent are one per file
\* reached so far, in list order, the k-th with current = k, total = the batch
\* size and the k-th file as its item, whatever the file's analysis does; the
\* channel never holds more than its capacity, and a full channel leaves the
\* producer no step at its send.
C11_ProgressInOrder ==
    (progress_tx /\ ~rx_closed /\ apc # "idle") =>
        /\ Len(Sent) = SendsDone
        /\ \A k \in 1..Len(Sent) :
              Sent[k] = [current |-> k, total |-> Len(files), current_item |-> files[k]]
        /\ Len(chan) <= ChanCap
        /\ (apc = "send" /\ Len(chan) = ChanCap) =>
              ~ENABLED (SendProgress \/ NoProgress \/ SendFailed)

\* reached: a batch of three files, the first unsupported and the second
\* failing, has returned; its three events are sent and the channel is full
C11_Witness ==
    /\ apc = "done" /\ progress_tx /\ ~rx_closed
    /\ Len(files) = 3 /\ files[1] = "U"
    /\ calls[2].analyze = "err"
    /\ Len(Sent) = 3 /\ Len(chan) = ChanCap
    /\ Sent[3].current = 3

\* the FileAnalysis entries that the analyze_file outcomes of the first n files give
RECURSIVE AnalysesOf(_)
AnalysesOf(n) ==
    IF n = 0 THEN <<>>
    ELSE AnalysesOf(n - 1) \o
         (IF calls[n].analyze = "ok" THEN <<[path |-> files[n], language |-> "Rust"]>>
          ELSE <<>>)

\* the dependencies that the extract_dependencies outcomes of the first n files give
RECURSIVE DepsOf(_)
DepsOf(n) == IF n = 0 THEN <<>> ELSE DepsOf(n - 1) \o calls[n].deps

\* C12: a closed progress receiver is not fatal: a run whose receiver was closed,
\* before or during the run, visits every file and returns Ok with the file
\* analyses, dependencies and graph that the analyzer outcomes alone determine,
\* which is what a run without a progress channel returns for those outcomes.
C12_ClosedReceiverNotFatal ==
    (apc = "done" /\ (~progress_tx \/ rx_closed)) =>
        /\ Len(calls) = Len(files)
        /\ result = Ok([file_analyses |-> AnalysesOf(Len(files)),
                        dependencies |-> DepsOf(Len(files)),
                        graph |-> CodeGraphNew(DepsOf(Len(files))),
                        project_structure |-> None])

\* reached: the receiver took the first event and was closed; the second file
\* was still analysed and the run returned both analyses
C12_Witness ==
    /\ apc = "done" /\ progress_tx /\ rx_closed
    /\ Len(files) = 2 /\ Len(received) = 1
    /\ Succeeded(1) /\ Succeeded(2) /\ calls[2].deps # <<>>
    /\ result.ok /\ Len(result.v.file_analyses) = 2
    /\ Len(result.v.graph.edges) = Len(calls[1].deps) + Len(calls[2].deps)

\* the steps of analyze_files itself, without those of the consumer
ProducerStep ==
    \/ NoProgress \/ SendProgress \/ SendFailed
    \/ SkipUnsupported \/ AnalyzeFileOk \/ AnalyzeFileErr
    \/ ExtractOk \/ ExtractErr \/ BuildResult

\* the steps analyze_files has left at most: three per file still to visit and
\* the building of the result
ProducerStepsLeft ==
    CASE apc = "send"    -> 3 * (Len(files) - idx - 1) + 4
      [] apc = "analyze" -> 3 * (Len(files) - idx - 1) + 3
      [] apc = "extract" -> 3 * (Len(files) - idx - 1) + 2
      [] apc = "build"   -> 1
      [] OTHER           -> 0

\* a natural number that bounds the steps of the run and of its consumer
StepsLeft ==
    2 * ProducerStepsLeft + Len(chan) + (IF rx_closed THEN 0 ELSE ChanCap + 1)

\* C13: analyze_files always ends: until it has returned it can take a step, or
\* waits at a send for a consumer that can receive; every step of the run or of
\* the consumer lowers a bound that is a natural number; and it returns only
\* after visiting every file of the list once.
C13_RunCompletes ==
    /\ [](apc \in {"send", "analyze", "extract", "build"} =>
            \/ ENABLED ProducerStep
            \/ apc = "send" /\ ENABLED RecvProgress)
    /\ [](StepsLeft >= 0)
    /\ [][StepsLeft' < StepsLeft]_vars
    /\ [](apc = "done" =>
            /\ result.ok
            /\ idx = Len(files)
            /\ Len(calls) = Len(files))

\* reached: a run of three files with a receiving consumer has returned and
\* all three events were received
C13_Witness ==
    /\ apc = "done" /\ result.ok
    /\ progress_tx /\ ~rx_closed
    /\ Len(files) = 3 /\ idx = 3 /\ Len(calls) = 3
    /\ Len(received) = 3 /\ chan = <<>>

\* an analyzer call of the file at position k has not returned yet
InFlight(k) == calls[k].analyze = "pending" \/ calls[k].extract = "pending"

\* C14: the files are processed strictly one after the other: a file's analyzer
\* calls start only after its progress event and after both calls of every
\* earlier file have returned, so at most the file in hand is in flight, and
\* the result with its graph exists only when the calls of the last file have
\* returned.
C14_StrictlySequential ==
    apc # "idle" =>
        /\ Len(calls) = (IF apc = "extract" THEN idx + 1 ELSE idx)
        /\ \A k \in 1..Len(calls) : InFlight(k) => (apc = "extract" /\ k = idx + 1)
        /\ apc = "extract" => InFlight(idx + 1)
        /\ (progress_tx /\ ~rx_closed) => Len(Sent) >= Len(calls)
        /\ (progress_tx /\ ~rx_closed /\ apc = "analyze") => Len(Sent) = Len(calls) + 1
        /\ apc \in {"build", "done"} => Len(calls) = Len(files)
        /\ result.ok => apc = "done"

\* reached: the second of three files waits for its extract_dependencies; the
\* first file is finished, the third has neither an event nor a call
C14_Witness ==
    /\ apc = "extract" /\ idx = 1 /\ Len(files) = 3
    /\ progress_tx /\ ~rx_closed /\ Len(Sent) = 2
    /\ Len(calls) = 2 /\ ~InFlight(1) /\ InFlight(2)
    /\ ~result.ok

\* C15: the AnalysisResult of analyze_full holds no two FileAnalysis entries
\* with the same path, whatever the paths argument lists, and one entry for
\* every file whose analyze_file succeeded.
C15_OneAnalysisPerFile ==
    (apc = "done" /\ result.ok /\ ~incremental) =>
        /\ \A m, n \in 1..Len(result.v.file_analyses) :
              result.v.file_analyses[m].path = result.v.file_analyses[n].path => m = n
        /\ \A k \in 1..Len(calls) :
              calls[k].analyze = "ok" =>
                  \E n \in 1..Len(result.v.file_analyses) :
                      result.v.file_analyses[n].path = files[k]

\* the collection walks the project directory
WalkConsulted ==
    incremental \/ paths = <<>> \/ \E k \in 1..Len(paths) : IsDir(paths[k])

\* loading the project state or enumerating the files meets a failure
CollectionFails ==
    \/ state_file = "corrupt"
    \/ WalkConsulted /\ \E k \in 1..Len(walk) : walk[k] = "ERR"
    \/ incremental /\ state_file = "nometadata"

\* C16: a failure while the file set is collected is never tolerated in part:
\* the run returns the error without entering the loop over the files, so no
\* analyzer is called and no progress event is sent.
C16_CollectionFailureAborts ==
    (apc # "idle" /\ CollectionFails) =>
        /\ apc \in {"project", "collect", "done"}
        /\ ~result.ok
        /\ calls = <<>>
        /\ chan = <<>> /\ received = <<>>

\* C17: one more branching construct in a body raises its cyclomatic
\* complexity by exactly 1.
C17_OneMorePerConstruct ==
    (mpc = "done" /\ mfn = "cyclomatic") => mout.after = mout.before + 1

\* the value is a number between 0 and 100
InRange(x) == x.k = "fin" /\ 0 <= x.m /\ x.m <= 100000

\* C18: calculate_maintainability_index returns a number in [0, 100], never
\* NaN, for all non-negative inputs, a file without lines included; a file
\* without lines and functions gets the complexity 0 and an index in range.
C18_IndexInRange ==
    /\ (mpc = "done" /\ mfn = "maintainability") => InRange(mout)
    /\ (mpc = "done" /\ mfn = "analyze_file") =>
          /\ InRange(mout.maintainability_index)
          /\ (loc = 0 /\ fn_count = 0) => mout.complexity = 0

\* reached: the index of no lines, where both logarithms are infinite, is 100
C18_Witness ==
    /\ mpc = "done" /\ mfn = "maintainability"
    /\ loc = 0 /\ comment_lines = 0
    /\ mout = Fin(100000)

\* C19: a reference whose first segment is std, core or alloc resolves to
\* exactly rust/std followed by the segments after the first, in order.
C19_StdRemainingSegments ==
    (/\ rpc = "done" /\ rfn = "import"
     /\ segs[1] \in StdNamespaces
     /\ \A k \in 2..Len(segs) : segs[k] # <<>>)
        => rout = Ok(<<<<"rust">>, <<"std">>>> \o Tail(segs))

\* the walk upward from the referencing file reaches the manifest of the root
ManifestFound ==
    source_path \in {EntryFile, NestedFile} /\ RootManifest \in exists

\* C20: the steps of resolve_import_path apply in order: a first segment std,
\* core or alloc resolves under rust/std even when the manifest names it; a
\* first segment that the found manifest names resolves under external even
\* when a candidate file of the reference exists; and without a manifest no
\* reference resolves under external.
C20_StepsInOrder ==
    (rpc = "done" /\ rfn = "import") =>
        /\ segs[1] \in StdNamespaces =>
              rout.ok /\ StartsWith(rout.v, <<<<"rust">>, <<"std">>>>)
        /\ (segs[1] \notin StdNamespaces /\ ManifestFound /\ ManifestNames(segs[1])) =>
              rout.ok /\ StartsWith(rout.v, <<<<"external">>>>)
        /\ ~ManifestFound =>
              rout.ok /\ ~StartsWith(rout.v, <<<<"external">>>>)

\* reached: the manifest names the package m and src/m.rs exists; the
\* reference m::T from src/main.rs resolves to external/m/T
C20_Witness ==
    /\ rpc = "done" /\ rfn = "import"
    /\ segs = <<<<"m">>, <<"T">>>>
    /\ source_path = EntryFile
    /\ FileModule \in exists /\ RootManifest \in exists
    /\ cargo[RootManifest].ok /\ ManifestNames(<<"m">>)
    /\ rout = Ok(<<<<"external">>, <<"m">>, <<"T">>>>)

(***************************************************************************)
(* Package root discovery: resolve_import_path on a disk with manifests    *)
(* above the project root, in it and in a nested package.                  *)
(***************************************************************************)
AboveManifest == <<RootDir, CargoToml>>
NestedManifest == SrcDir \o <<<<"a">>, CargoToml>>
NestedCandidate == SrcDir \o <<<<"a">>, <<"src">>, <<"m", ".rs">>>>
OutsideFile == <<RootDir, <<"q">>, <<"b", ".rs">>>>

RootFsUniverse == {AboveManifest, RootManifest, NestedManifest, NestedCandidate, FileModule}
RootManifestPaths == {AboveManifest, RootManifest, NestedManifest}
RootSources == Sources \cup {OutsideFile}
RootSegLists == {<<<<"crate">>, <<"m">>>>, <<<<"crate">>, <<"T">>>>, <<<<"m">>>>}

InitPackageRoot ==
    /\ exists \in SUBSET RootFsUniverse
    /\ cargo \in [exists \cap RootManifestPaths -> ManifestReads]
    /\ segs \in RootSegLists
    /\ import_path = JoinStr(segs, Sep)
    /\ source_path \in RootSources
    /\ rpc = "start"
    /\ rfn = "none"
    /\ rout = Err
    /\ tree = <<>>

InitP == InitPackageRoot /\ GraphIdle /\ AnalyzeIdle /\ CollectIdle /\ MetricsIdle

NextPackageRoot == CallResolveImportPath /\ UNCHANGED <<gvars, avars, cvars, mvars>>

SpecPackageRoot == InitP /\ [][NextPackageRoot]_vars

\* the directory of the referencing file
SourceDir == UnwrapOr(Parent(source_path), <<>>)

\* the lengths of the directories from SourceDir upward that lie inside the
\* project root and hold a manifest
ManifestDirs ==
    {k \in 1..Len(SourceDir) :
        /\ StartsWith(SubSeq(SourceDir, 1, k), ProjectRoot)
        /\ (SubSeq(SourceDir, 1, k) \o <<CargoToml>>) \in exists}

\* the nearest of them, else the project root
PackageRoot ==
    IF ManifestDirs = {} THEN ProjectRoot
    ELSE SubSeq(SourceDir, 1, CHOOSE k \in ManifestDirs : \A j \in ManifestDirs : j <= k)

\* C21: the package root of resolve_import_path is the nearest directory from
\* the referencing file's directory upward, inside the project root, that holds
\* a manifest, else the project root; a manifest above the project root is
\* never used.  A crate:: reference shows the root: it resolves to a candidate
\* or to the best guess under <package root>/src.
C21_PackageRoot ==
    (rpc = "done" /\ rfn = "import" /\ segs[1] = <<"crate">>) =>
        /\ rout.ok
        /\ rout.v \in {PackageRoot \o <<<<"src">>, segs[2] \o RS>>,
                       PackageRoot \o <<<<"src">>, <<"crate">>, segs[2] \o RS>>}

\* reached: manifests above the root, in the root and in src/a; crate::m from
\* src/a/b.rs resolves to the existing src/a/src/m.rs of the nested package
C21_Witness ==
    /\ rpc = "done" /\ rfn = "import"
    /\ segs = <<<<"crate">>, <<"m">>>>
    /\ source_path = NestedFile
    /\ {AboveManifest, RootManifest, NestedManifest, NestedCandidate, FileModule} \subseteq exists
    /\ rout = Ok(NestedCandidate)

(***************************************************************************)
(* Candidate order: resolve_import_path on a disk that can hold every      *)
(* candidate of m, m::T, crate::m and crate::m::T, and a nested manifest.  *)
(***************************************************************************)
NestedModule == SrcDir \o <<<<"m">>, <<"T", ".rs">>>>
NestedDirModule == SrcDir \o <<<<"m">>, <<"T">>, ModRs>>

CandFsUniverse ==
    {LibRs, EntryFile, FileModule, DirModule, NestedModule, NestedDirModule, NestedManifest}
CandSegLists ==
    {<<<<"crate">>, <<"m">>>>, <<<<"crate">>, <<"m">>, <<"T">>>>,
     <<<<"m">>>>, <<<<"m">>, <<"T">>>>, <<<<"T">>>>}

InitCandidates ==
    /\ exists \in SUBSET CandFsUniverse
    /\ cargo \in [exists \cap {NestedManifest} -> ManifestReads]
    /\ segs \in CandSegLists
    /\ import_path = JoinStr(segs, Sep)
    /\ source_path \in Sources
    /\ rpc = "start"
    /\ rfn = "none"
    /\ rout = Err
    /\ tree = <<>>

InitCand == InitCandidates /\ GraphIdle /\ AnalyzeIdle /\ CollectIdle /\ MetricsIdle

NextCandidates == CallResolveImportPath /\ UNCHANGED <<gvars, avars, cvars, mvars>>

SpecCandidates == InitCand /\ [][NextCandidates]_vars

\* the path of the segments sg under dir, the last one with the extension
FileForm(dir, sg) == dir \o SubSeq(sg, 1, Len(sg) - 1) \o <<sg[Len(sg)] \o RS>>

\* the path of the segments sg under dir as a directory module
DirForm(dir, sg) == dir \o sg \o <<ModRs>>

\* <package root>/src
PackageSrc == PackageRoot \o <<<<"src">>>>

\* the found manifest names the first segment
ClassifiedExternal == ManifestDirs # {} /\ ManifestNames(segs[1])

\* the candidates of a crate:: reference, in order
CrateCandidates == <<FileForm(PackageSrc, Tail(segs)), DirForm(PackageSrc, Tail(segs))>>

\* the candidates of a plain reference, in order
PlainCandidates ==
    <<PackageSrc \o <<<<"lib", ".rs">>>>, PackageSrc \o <<<<"main", ".rs">>>>,
      FileForm(PackageSrc, <<segs[1]>>), DirForm(PackageSrc, <<segs[1]>>)>>
    \o (IF Len(segs) > 1 THEN <<FileForm(PackageSrc, segs), DirForm(PackageSrc, segs)>>
        ELSE <<>>)

\* the candidates of the reference in hand
Candidates == IF segs[1] = <<"crate">> THEN CrateCandidates ELSE PlainCandidates

\* the result is the first candidate of cs that exists, if one does
FirstOf(cs) ==
    \A i \in 1..Len(cs) :
        (cs[i] \in exists /\ \A j \in 1..(i - 1) : cs[j] \notin exists) => rout = Ok(cs[i])

\* C22: a crate:: reference that is not classified external resolves to the
\* first existing one of <package root>/src/<rest>.rs and
\* <package root>/src/<rest>/mod.rs, in that order.
C22_CrateCandidates ==
    (/\ rpc = "done" /\ rfn = "import"
     /\ segs[1] = <<"crate">> /\ ~ClassifiedExternal)
        => FirstOf(CrateCandidates)

\* reached: src/m.rs and src/m/mod.rs both exist and crate::m is src/m.rs
C22_Witness ==
    /\ rpc = "done" /\ rfn = "import"
    /\ segs = <<<<"crate">>, <<"m">>>>
    /\ source_path = EntryFile
    /\ FileModule \in exists /\ DirModule \in exists
    /\ rout = Ok(FileModule)

\* C23: a plain reference that is not classified external resolves to the
\* first existing one of src/lib.rs, src/main.rs, src/<first>.rs,
\* src/<first>/mod.rs and, with more than one segment, src/<all>.rs and
\* src/<all>/mod.rs, under the package root.
C23_PlainCandidates ==
    (/\ rpc = "done" /\ rfn = "import"
     /\ segs[1] # <<"crate">> /\ ~ClassifiedExternal)
        => FirstOf(PlainCandidates)

\* reached: only src/m/T.rs and src/m/T/mod.rs exist and m::T is src/m/T.rs
C23_Witness ==
    /\ rpc = "done" /\ rfn = "import"
    /\ segs = <<<<"m">>, <<"T">>>>
    /\ source_path = EntryFile
    /\ exists = {NestedModule, NestedDirModule}
    /\ rout = Ok(NestedModule)

\* no candidate of the reference exists and it is not classified external
NothingFound ==
    /\ rpc = "done" /\ rfn = "import"
    /\ ~ClassifiedExternal
    /\ \A i \in 1..Len(Candidates) : Candidates[i] \notin exists

VecFile == SrcDir \o <<<<"v", "ec", ".rs">>>>
TFile == SrcDir \o <<<<"t", ".rs">>>>

TypeFsUniverse == {VecFile, TFile, FileModule, NestedModule, RootManifest}
TypeSegLists ==
    {<<<<"V", "ec">>>>, <<<<"T">>>>, <<<<"m">>>>, <<<<>>>>,
     <<<<"m">>, <<"T">>>>, <<<<"std">>, <<"T">>>>}

InitTypePath ==
    /\ exists \in SUBSET TypeFsUniverse
    /\ cargo \in [exists \cap ManifestPaths -> ManifestReads]
    /\ segs \in TypeSegLists
    /\ import_path = JoinStr(segs, Sep)
    /\ source_path \in Sources
    /\ rpc = "start"
    /\ rfn = "none"
    /\ rout = Err
    /\ tree = <<>>

InitT == InitTypePath /\ GraphIdle /\ AnalyzeIdle /\ CollectIdle /\ MetricsIdle

NextTypePath == CallResolveTypePath /\ UNCHANGED <<gvars, avars, cvars, mvars>>

SpecTypePath == InitT /\ [][NextTypePath]_vars

\* the file named after the snake_case form of the name, in the referencing
\* file's directory
TypeFile == SourceDir \o <<ToSnakeCase(segs[1]) \o RS>>

\* C25: resolve_type_path checks in a fixed order: a name with the scope
\* separator resolves as resolve_import_path resolves it; else a name of the
\* type list resolves to rust/std; else the existing file named after the
\* snake_case form of the name, in the referencing file's directory, is
\* returned; else the referencing file.
C25_TypePathOrder ==
    (rpc = "done" /\ rfn = "type") =>
        IF Len(segs) > 1
        THEN rout = ResolveImportPath(import_path, source_path, ProjectRoot)
        ELSE IF segs[1] \in StdTypes THEN rout = Ok(<<<<"rust">>, <<"std">>>>)
        ELSE IF segs[1] # <<>> /\ TypeFile \in exists THEN rout = Ok(TypeFile)
        ELSE rout = Ok(source_path)

\* reached: src/vec.rs exists and the type Vec, named in src/main.rs, still
\* resolves to rust/std
C25_Witness ==
    /\ rpc = "done" /\ rfn = "type"
    /\ segs = <<<<"V", "ec">>>>
    /\ source_path = EntryFile
    /\ VecFile \in exists
    /\ rout = Ok(<<<<"rust">>, <<"std">>>>)

(***************************************************************************)
(* RustAnalyzer::extract_dependencies_from_tree.  The syntax tree is the   *)
(* sequence, in document order, of the nodes its queries can match; a node *)
(* is a record of its kind and its fields, a leaf carrying its text.  The  *)
(* line of a dependency is not modelled.                                   *)
(***************************************************************************)
MaxNodes == 2

NewDependency(sp, target_path, dependency_type, info) ==
    [source |-> sp, target |-> target_path, dependency_type |-> dependency_type,
     info |-> info]

\* import_query: (use_declaration argument: (_) @path)
ExtractImports(t) ==
    Concat([i \in 1..Len(t) |->
              IF t[i].kind = "use_declaration" THEN <<[path |-> t[i].argument]>>
              ELSE <<>>])

\* function_call_query: the captures of the match a node gives, if it gives one
FunctionCallQuery(node) ==
    IF node.kind # "call_expression" THEN <<>>
    ELSE LET f == node.function
         IN IF f.kind = "identifier"
            THEN <<[function_name |-> Some(f.text), module_name |-> None]>>
            ELSE IF f.kind = "field_expression"
            THEN <<[function_name |-> Some(f.field), module_name |-> None]>>
            ELSE IF f.kind = "scoped_identifier"
            THEN <<[function_name |-> Some(f.name),
                    module_name |-> IF f.path.kind = "identifier"
                                    THEN Some(f.path.text) ELSE None]>>
            ELSE <<>>

\* dependencies.push(Dependency { .. }) under `Ok(target_path)` / `if let Ok(..)`:
\* the dependency to the resolved path, or nothing when the resolver erred
PushIfOk(resolved, sp, dependency_type, info) ==
    IF resolved.ok THEN <<NewDependency(sp, resolved.v, dependency_type, info)>>
    ELSE <<>>

\* the body of the loop over the function-call matches
FunctionCallDependencies(match_, sp, root) ==
    IF ~match_.function_name.some THEN <<>>
    ELSE IF match_.module_name.some
    THEN PushIfOk(ResolveModulePath(match_.module_name.v, sp, root), sp, "FunctionCall",
                  <<"Function call: ">> \o match_.module_name.v \o <<Sep>>
                      \o match_.function_name.v)
    ELSE <<NewDependency(sp, sp, "FunctionCall",
                         <<"Local function call: ">> \o match_.function_name.v)>>

\* type_reference_query: (type_identifier) @type_name, every such node of the
\* tree, nested ones included
TypeIdentifiers(node) ==
    LET direct(children) ==
            Concat([j \in 1..Len(children) |->
                      IF children[j].kind = "type_identifier"
                      THEN <<children[j].text>> ELSE <<>>])
        nested(items) ==
            Concat([j \in 1..Len(items) |->
                      Concat([k \in 1..Len(items[j].children) |->
                                LET c == items[j].children[k]
                                IN IF c.kind = "type_identifier" THEN <<c.text>>
                                   ELSE IF c.kind = "ordered_field_declaration_list"
                                   THEN direct(c.children)
                                   ELSE <<>>])])
    IN IF node.kind = "struct_item"
       THEN <<node.name>> \o (IF node.body.some THEN nested(node.body.v) ELSE <<>>)
       ELSE IF node.kind = "enum_item" THEN <<node.name>> \o nested(node.body.v)
       ELSE IF node.kind = "impl_item"
       THEN (IF node.trait.some THEN <<node.trait.v>> ELSE <<>>) \o <<node.type>>
       ELSE <<>>

\* the names the type-reference loop skips
PrimitiveTypes ==
    {<<t>> : t \in {"i8", "i16", "i32", "i64", "i128", "isize", "u8", "u16", "u32",
                    "u64", "u128", "usize", "f32", "f64", "bool", "char", "str",
                    "String"}}

\* the body of the loop over the type-reference matches
TypeReferenceDependencies(type_name, sp, root) ==
    IF type_name \in PrimitiveTypes THEN <<>>
    ELSE PushIfOk(ResolveTypePath(type_name, sp, root), sp, "TypeUsage",
                  <<"Type reference: ">> \o type_name)

\* the body of the loop over the impl_query matches: the trait's dependency,
\* when the impl names a trait, and the type's
ImplDependencies(node, sp, root) ==
    IF node.kind # "impl_item" THEN <<>>
    ELSE (IF node.trait.some
          THEN PushIfOk(ResolveTypePath(node.trait.v, sp, root), sp, "Implementation",
                        <<"Trait implementation: ">> \o node.trait.v \o <<" for ">>
                            \o node.type)
          ELSE <<>>)
         \o PushIfOk(ResolveTypePath(node.type, sp, root), sp, "Implementation",
                     <<IF node.trait.some THEN "Type implementation: "
                       ELSE "Implementation for: ">> \o node.type)

\* the type_identifier children of the members of a body: one edge each
MemberDependencies(body_node, member_kind, label, sp, root) ==
    Concat([i \in 1..Len(body_node) |->
              IF body_node[i].kind # member_kind THEN <<>>
              ELSE Concat([j \in 1..Len(body_node[i].children) |->
                             IF body_node[i].children[j].kind # "type_identifier"
                             THEN <<>>
                             ELSE PushIfOk(ResolveTypePath(body_node[i].children[j].text,
                                                           sp, root),
                                           sp, "TypeUsage",
                                           <<label>> \o body_node[i].children[j].text)])])

\* the loops over the struct_query and the enum_query matches: a struct_item
\* with a body gives its field_declarations, an enum_item its enum_variants
StructEnumDependencies(node, sp, root) ==
    IF node.kind \in {"struct_item", "enum_item"} /\ node.body.some
    THEN MemberDependencies(node.body.v,
                            IF node.kind = "struct_item" THEN "field_declaration"
                            ELSE "enum_variant",
                            IF node.kind = "struct_item" THEN "Field type: "
                            ELSE "Enum variant type: ",
                            sp, root)
    ELSE <<>>

\* the struct_query matches, then the enum_query matches, in document order
StructThenEnumItems(t) ==
    SelectSeq(t, LAMBDA n : n.kind = "struct_item")
    \o SelectSeq(t, LAMBDA n : n.kind = "enum_item")

ExtractStructTraitDependencies(t, sp, root) ==
    Concat([i \in 1..Len(t) |-> ImplDependencies(t[i], sp, root)])
    \o Concat([i \in 1..Len(StructThenEnumItems(t)) |->
                 StructEnumDependencies(StructThenEnumItems(t)[i], sp, root)])

\* `?` over the resolved imports: the first error, or all the paths
TryAll(resolved) ==
    IF \E i \in 1..Len(resolved) : ~resolved[i].ok THEN Err
    ELSE Ok([i \in 1..Len(resolved) |-> resolved[i].v])

\* the Import dependencies, then the rest of the function once none erred
ImportsThen(targets, imports, sp, rest) ==
    IF ~targets.ok THEN Err
    ELSE Ok([i \in 1..Len(imports) |->
                NewDependency(sp, targets.v[i], "Import",
                              <<"Import: ">> \o imports[i].path)]
            \o rest)

ExtractDependenciesFromTree(t, sp, root) ==
    ImportsThen(
        TryAll([i \in 1..Len(ExtractImports(t)) |->
                   ResolveImportPath(ExtractImports(t)[i].path, sp, root)]),
        ExtractImports(t), sp,
        Concat([i \in 1..Len(t) |->
                  Concat([k \in 1..Len(FunctionCallQuery(t[i])) |->
                            FunctionCallDependencies(FunctionCallQuery(t[i])[k],
                                                     sp, root)])])
        \o Concat([i \in 1..Len(t) |->
                     Concat([k \in 1..Len(TypeIdentifiers(t[i])) |->
                               TypeReferenceDependencies(TypeIdentifiers(t[i])[k],
                                                         sp, root)])])
        \o ExtractStructTraitDependencies(t, sp, root))

(***************************************************************************)
(* The extractor's inputs: the nodes a file can hold and the disk          *)
(***************************************************************************)
Leaf(kind, text) == [kind |-> kind, text |-> text]

CallExpression(function) == [kind |-> "call_expression", function |-> function]

\* f(), x.f(), m::f(), crate::f() and f::<T>()
CallNodes ==
    {CallExpression(Leaf("identifier", <<"f">>)),
     CallExpression([kind |-> "field_expression", field |-> <<"f">>]),
     CallExpression([kind |-> "scoped_identifier",
                     path |-> Leaf("identifier", <<"m">>), name |-> <<"f">>]),
     CallExpression([kind |-> "scoped_identifier",
                     path |-> Leaf("crate", <<"crate">>), name |-> <<"f">>]),
     CallExpression([kind |-> "generic_function",
                     function |-> Leaf("identifier", <<"f">>)])}

FieldDeclaration(type) ==
    [kind |-> "field_declaration",
     children |-> <<Leaf("field_identifier", <<"x">>), Leaf(":", <<":">>), type>>]

\* struct T;  struct T { x: String }  struct T { x: T, x: u8 }
StructNodes ==
    {[kind |-> "struct_item", name |-> <<"T">>, body |-> None],
     [kind |-> "struct_item", name |-> <<"T">>,
      body |-> Some(<<FieldDeclaration(Leaf("type_identifier", <<"String">>))>>)],
     [kind |-> "struct_item", name |-> <<"T">>,
      body |-> Some(<<FieldDeclaration(Leaf("type_identifier", <<"T">>)),
                      FieldDeclaration(Leaf("primitive_type", <<"u8">>))>>)]}

\* enum T { x(String) }; the body the enum_query requires is always there
EnumNodes ==
    {[kind |-> "enum_item", name |-> <<"T">>,
      body |-> Some(<<[kind |-> "enum_variant",
                       children |-> <<Leaf("identifier", <<"x">>),
                                      [kind |-> "ordered_field_declaration_list",
                                       children |-> <<Leaf("type_identifier",
                                                           <<"String">>)>>]>>]>>)]}

\* impl T { }  impl V for T { }
ImplNodes ==
    {[kind |-> "impl_item", trait |-> None, type |-> <<"T">>],
     [kind |-> "impl_item", trait |-> Some(<<"V">>), type |-> <<"T">>]}

\* use m;
UseNodes == {[kind |-> "use_declaration", argument |-> <<"m">>]}

TreeNodes == CallNodes \cup StructNodes \cup EnumNodes \cup ImplNodes \cup UseNodes

Trees == UNION {[1..n -> TreeNodes] : n \in 1..MaxNodes}

ExtractFsUniverse == {RootManifest, FileModule, DirModule}

InitExtract ==
    /\ exists \in SUBSET ExtractFsUniverse
    /\ cargo \in [exists \cap ManifestPaths -> ManifestReads]
    /\ segs = <<>>
    /\ import_path = <<>>
    /\ source_path = EntryFile
    /\ rpc = "start"
    /\ rfn = "none"
    /\ rout = Err
    /\ tree \in Trees

CallExtractDependenciesFromTree ==
    /\ rpc = "start"
    /\ rout' = ExtractDependenciesFromTree(tree, source_path, ProjectRoot)
    /\ rfn' = "extract"
    /\ rpc' = "done"
    /\ UNCHANGED <<exists, cargo, segs, import_path, source_path, tree>>

NextExtract == CallExtractDependenciesFromTree /\ UNCHANGED <<gvars, avars, cvars, mvars>>

InitX == InitExtract /\ GraphIdle /\ AnalyzeIdle /\ CollectIdle /\ MetricsIdle

SpecExtract == InitX /\ [][NextExtract]_vars

\* the call expressions of the tree, in document order
CallExpressions == SelectSeq(tree, LAMBDA n : n.kind = "call_expression")

\* a call is module-qualified when its callee is a scoped path
ModuleQualified(call) == call.function.kind = "scoped_identifier"

\* the target the dependency of a call expression is to have
CallTarget(call) ==
    IF ModuleQualified(call)
    THEN ResolveModulePath(call.function.path.text, source_path, ProjectRoot).v
    ELSE source_path

\* the FunctionCall dependencies the extractor returned
FunctionCallsOut == SelectSeq(rout.v, LAMBDA d : d.dependency_type = "FunctionCall")

\* C26: for every call expression of a file the extractor emits exactly one
\* FunctionCall dependency whose source is the file; its target is the path the
\* resolver returns for the module name when the call is module-qualified, and
\* the source when it is not.
C26_OneDependencyPerCall ==
    (rpc = "done" /\ rfn = "extract") =>
        /\ rout.ok
        /\ Len(FunctionCallsOut) = Len(CallExpressions)
        /\ \A i \in 1..Len(CallExpressions) :
               i <= Len(FunctionCallsOut) =>
                   /\ FunctionCallsOut[i].source = source_path
                   /\ FunctionCallsOut[i].target = CallTarget(CallExpressions[i])

\* the TypeUsage dependencies the extractor returned for the members of type bodies
MemberTypeUsages ==
    SelectSeq(rout.v, LAMBDA d : /\ d.dependency_type = "TypeUsage"
                                 /\ Head(d.info) \in {"Field type: ",
                                                      "Enum variant type: "})

\* C27: the extractor emits no TypeUsage edge for a member of a struct or enum
\* body whose declared type is one of the skipped primitive and built-in names.
C27_NoPrimitiveMemberEdge ==
    (rpc = "done" /\ rfn = "extract" /\ rout.ok) =>
        \A i \in 1..Len(MemberTypeUsages) :
            Tail(MemberTypeUsages[i].info) \notin PrimitiveTypes

\* C28: get_dependency_path(s, s) returns Some of the empty edge sequence, be s
\* a node of the graph or not, with a self-loop edge or without.
C28_SelfPathEmpty ==
    (gpc = "done" /\ source = target) => gret = Some(<<>>)

\* s has a self-loop edge
C28_Witness ==
    /\ gpc = "done" /\ source = target
    /\ \E k \in 1..Len(graph.edges) :
           graph.edges[k].source = source /\ graph.edges[k].target = source
    /\ gret = Some(<<>>)

\* the running brace depth after line i of the body in hand, that line included
DepthAt(i) ==
    LET read == Concat(SubSeq(Lines(body), 1, i))
    IN MatchCount(read, <<"{">>) - MatchCount(read, <<"}">>)

\* C29: in calculate_cognitive_complexity the running brace depth is at least 0
\* at every line holding a control-flow keyword, so the nesting penalty is never
\* negative and the unsigned score neither wraps nor overflows.
C29_NestingPenaltyNonNegative ==
    (mpc = "done" /\ mfn = "cognitive") =>
        /\ \A i \in 1..Len(Lines(body)) :
               ContainsControlFlow(Lines(body)[i]) => DepthAt(i) >= 0
        /\ ~mout.panic
        /\ ~mout.wrapped
        /\ ~mout.v.top

\* the files of the project directory that the indexing configuration includes
ProjectFiles ==
    SelectSeq(walk, LAMBDA e : e # "ERR" /\ Extension(e) \in IncludeExtensions)

\* those of them that are new or modified since the recorded state
ChangedFiles ==
    SelectSeq(ProjectFiles, LAMBDA e : ~(e = "A" /\ state_file = "unchanged"))

\* f is one of the given paths or lies under a given directory
AtOrUnder(f) ==
    \E k \in 1..Len(paths) :
        \/ paths[k] = f
        \/ IsDir(paths[k]) /\ \E n \in 1..Len(walk) : walk[n] = f

\* the file set is collected and the batch is being analysed
Collected == apc \in {"send", "analyze", "extract", "build"}

====
